---- MODULE Spec2Model ----
(***************************************************************************)
(* Registration reconciliation against a remote customer store:           *)
(*   - adminREST, the outbound client with retry/backoff (lib/shopify.ts) *)
(*   - the register handler (pages/api/validate-register.ts, in its       *)
(*     directory/update-only revision and its storefront revision)        *)
(*   - findCustomerIdByEmailExact and upsertMetafieldREST                  *)
(*   - the customer-save handler (pages/api/customer-save.js)             *)
(*   - the site directory cache, its CSV parser (lib/site-directory.ts)   *)
(*     and the validate handler (pages/api/validate-siteid.ts)            *)
(* Strings that the code trims, lower-cases or compares are sequences of  *)
(* one-character strings.                                                  *)
(***************************************************************************)
EXTENDS Integers, Sequences, FiniteSets, TLC

VARIABLES
  customers,   \* remote store: sequence of customer records, in creation order
  nextId,      \* remote store: next customer identifier
  metafields,  \* remote store: sequence of attribute records, in creation order
  nextMfId,    \* remote store: next attribute identifier
  pc,          \* per request slot: position in the handler
  req,         \* per request slot: the request body
  loc,         \* per request slot: the handler's local variables
  resp,        \* per request slot: the JSON response sent
  log,         \* per request slot: remote calls issued so far by the request
  nreq,        \* number of requests received so far
  rest,        \* one adminREST call: its loop state
  find,        \* one findCustomerIdByEmailExact call on a given search response
  ups,         \* a sequential caller of upsertMetafieldREST
  dir,         \* the site directory: configuration, clock, cache, callers
  csv,         \* one parseCSV call on a written table
  validate     \* one call of the validate handler

vars == <<customers, nextId, metafields, nextMfId, pc, req, loc, resp, log,
          nreq, rest, find, ups, dir, csv, validate>>

storeVars == <<customers, nextId, metafields, nextMfId>>
procVars  == <<pc, req, loc, resp, log, nreq>>
libVars   == <<dir, csv, validate>>

------------------------------------------------------------------------------
(* Bounds of the model *)

MaxTries == 2
MaxCandidates == 2
MaxUpserts == 3
MaxRequests == 2

------------------------------------------------------------------------------
(* Strings *)

Null == 0

Max(a, b) == IF a >= b THEN a ELSE b

Lower(c) ==
  CASE c = "A" -> "a" [] c = "B" -> "b" [] c = "D" -> "d" [] c = "I" -> "i"
    [] c = "N" -> "n" [] OTHER -> c

\* String.prototype.toLowerCase
ToLower(s) == [i \in 1..Len(s) |-> Lower(s[i])]

\* the white space that trim drops
WhiteSpace == {" ", "\t", "\n", "\r"}

RECURSIVE TrimLeft(_)
TrimLeft(s) == IF s # <<>> /\ Head(s) \in WhiteSpace THEN TrimLeft(Tail(s)) ELSE s

RECURSIVE TrimRight(_)
TrimRight(s) ==
  IF s # <<>> /\ s[Len(s)] \in WhiteSpace
  THEN TrimRight(SubSeq(s, 1, Len(s) - 1)) ELSE s

\* String.prototype.trim
Trim(s) == TrimRight(TrimLeft(s))

------------------------------------------------------------------------------
(* adminREST: the retry loop *)

DefaultTries == 1
BackoffBaseMs == 300

Statuses == {200, 201, 404, 422, 429, 500, 503}

\* response bodies, each followed by blanks up to its length: nothing, an
\* object, the literal null, a number, and two texts that are no JSON
Bodies == { <<>>, <<"{", "}">>, <<"n", "u", "l", "l">>, <<"7">>, <<"<">>, <<"{">> }

TriesInputs == {[given |-> FALSE, n |-> 0]} \cup
               {[given |-> TRUE, n |-> k] : k \in (0 - 1)..MaxTries}

\* const tries = typeof init.tries === "number" ? Math.max(0, init.tries) : 1
EffectiveTries(t) == IF t.given THEN Max(0, t.n) ELSE DefaultTries

RetryableAny4xx(status) == status >= 400

\* r.status === 429 || r.status >= 500
Retryable(status) == status = 429 \/ status >= 500

ShouldRetryInclusive(status, attempt, tries) == Retryable(status) /\ attempt <= tries

\* (r.status === 429 || r.status >= 500) && attempt < tries
ShouldRetry(status, attempt, tries) == Retryable(status) /\ attempt < tries

\* r.ok
IsOk(status) == status >= 200 /\ status <= 299

SnippetChars == 400

\* the lengths a response body is given: its own, and with blanks after it
BodyLengths(b) == {Len(b), Len(b) + 1, 400, 401}

\* a JSON value: its type and, for a number, its digits
JsNull == [type |-> "null", digits |-> <<>>]
JsObject == [type |-> "object", digits |-> <<>>]
JsNumber(digits) == [type |-> "number", digits |-> digits]
JsString == [type |-> "string", digits |-> <<>>]

DecimalDigits == {"0", "1", "2", "3", "4", "5", "6", "7", "8", "9"}

\* JSON.parse(text) on the texts taken here: white space around the value is
\* skipped; ok is false where JSON.parse throws
JsonParse(text) ==
  LET s == Trim(text) IN
    IF s = <<"n", "u", "l", "l">> THEN [ok |-> TRUE, value |-> JsNull]
    ELSE IF s = <<"{", "}">> THEN [ok |-> TRUE, value |-> JsObject]
    ELSE IF /\ s # <<>>
            /\ \A i \in 1..Len(s) : s[i] \in DecimalDigits
            /\ (Len(s) = 1 \/ s[1] # "0")
      THEN [ok |-> TRUE, value |-> JsNumber(s)]
    ELSE [ok |-> FALSE, value |-> JsNull]

\* a body that is no JSON handed back as the text it is
ParsedOrText(text, bodyLen) ==
  IF bodyLen = 0 THEN JsNull
  ELSE IF JsonParse(text).ok THEN JsonParse(text).value ELSE JsString

\* let json = null; try { json = text ? JSON.parse(text) : null } catch {}
\* text is the body up to the blanks that fill it to bodyLen; blanks after a
\* value change nothing for JSON.parse, and blanks alone are no JSON
Parsed(text, bodyLen) ==
  IF bodyLen = 0 THEN JsNull
  ELSE IF JsonParse(text).ok THEN JsonParse(text).value ELSE JsNull

Min(a, b) == IF a <= b THEN a ELSE b

NoError == [status |-> 0, snippet |-> 0]

ErrorOfFirst(hist, bodyLen) ==
  [status |-> hist[1], snippet |-> Min(bodyLen, SnippetChars)]

\* new Error(`REST ${r.status} ${r.statusText} :: ${(text || "").slice(0, 400)}`):
\* the status line of the last response and the length of the body snippet
ErrorOf(hist, bodyLen) ==
  [status |-> hist[Len(hist)], snippet |-> Min(bodyLen, SnippetChars)]

\* init.body values: left out, null, a pre-encoded string, any other value
NoBody == [kind |-> "undefined", text |-> <<>>]
NullBody == [kind |-> "null", text |-> <<>>]
StringBody(text) == [kind |-> "string", text |-> text]
ObjectBody == [kind |-> "object", text |-> <<>>]

InitBodies == {NoBody, NullBody, StringBody(<<>>), StringBody(<<"x">>), ObjectBody}

\* init.method values: left out (or empty), and method names in either case
InitMethods == {"", "head", "POST"}

ContentType == "Content-Type"
AccessToken == "X-Shopify-Access-Token"

\* the names of init.headers: left out, or naming a content type
InitHeaders == {{}, {ContentType}}

AdminInits == [method : InitMethods, body : InitBodies, headers : InitHeaders]

\* the call the register handler makes to create a customer or an attribute:
\* { method: 'POST', body: {...} }, no tries given
HandlerPost == [method |-> "POST", body |-> ObjectBody, headers |-> {}]

\* (init.method || "GET").toString().toUpperCase()
MethodOf(init) ==
  CASE init.method = "" -> "GET"
    [] init.method = "head" -> "HEAD"
    [] init.method = "get" -> "GET"
    [] init.method = "post" -> "POST"
    [] OTHER -> init.method

\* JSON.stringify of a value that is no string
JsonStringify(value) == <<"{", "}">>

\* let body = undefined; if (init.body != null && method !== "GET" &&
\* method !== "HEAD") body = typeof init.body === "string" ? init.body
\* : JSON.stringify(init.body)
BodyOf(init, method) ==
  IF init.body.kind \notin {"undefined", "null"} /\ method \notin {"GET", "HEAD"}
  THEN (IF init.body.kind = "string" THEN init.body
        ELSE StringBody(JsonStringify(init.body)))
  ELSE NoBody

\* a string is truthy unless it is empty; undefined is not
Truthy(body) == body.kind = "string" /\ body.text # <<>>

\* { "X-Shopify-Access-Token": adminToken,
\*   ...(body ? { "Content-Type": "application/json" } : {}), ...(init.headers || {}) }
HeadersOf(init, body) ==
  {AccessToken} \cup (IF Truthy(body) THEN {ContentType} ELSE {}) \cup init.headers

\* fetch(url, { ...init, method, headers, body }): what each delivery carries
RequestOfInit(init) ==
  LET method == MethodOf(init)
      body == BodyOf(init, method)
  IN [method |-> method, body |-> body, headers |-> HeadersOf(init, body)]

NoInit == [method |-> "", body |-> NoBody, headers |-> {}]

RestIdle == [pc |-> "idle", tries |-> [given |-> FALSE, n |-> 0], attempt |-> 0,
             fetches |-> 0, sleeps |-> <<>>, hist |-> <<>>, body |-> <<>>,
             bodyLen |-> 0, result |-> "none", json |-> JsNull, err |-> NoError,
             init |-> NoInit, request |-> RequestOfInit(NoInit)]

\* entry of adminREST up to the first fetch
RestCall ==
  /\ rest.pc = "idle"
  /\ \E t \in TriesInputs, init \in AdminInits :
       rest' = [RestIdle EXCEPT !.pc = "fetch", !.tries = t, !.init = init,
                                !.request = RequestOfInit(init)]
  /\ UNCHANGED <<storeVars, procVars, find, ups, libVars>>

\* const r = await fetch(...)
RestFetch ==
  /\ rest.pc = "fetch"
  /\ \E s \in Statuses, b \in Bodies :
       \E n \in BodyLengths(b) :
         rest' = [rest EXCEPT !.pc = "got", !.fetches = @ + 1,
                              !.hist = Append(@, s), !.body = b, !.bodyLen = n]
  /\ UNCHANGED <<storeVars, procVars, find, ups, libVars>>

\* the retry branch: sleep(300 * (attempt + 1)); attempt++; continue
RestRetry ==
  /\ rest.pc = "got"
  /\ ShouldRetry(rest.hist[Len(rest.hist)], rest.attempt, EffectiveTries(rest.tries))
  /\ rest' = [rest EXCEPT !.pc = "fetch",
                          !.sleeps = Append(@, BackoffBaseMs * (rest.attempt + 1)),
                          !.attempt = @ + 1]
  /\ UNCHANGED <<storeVars, procVars, find, ups, libVars>>

\* parse the body, throw on !r.ok, else return json
RestFinish ==
  /\ rest.pc = "got"
  /\ ~ShouldRetry(rest.hist[Len(rest.hist)], rest.attempt, EffectiveTries(rest.tries))
  /\ LET s == rest.hist[Len(rest.hist)]
         json == Parsed(rest.body, rest.bodyLen)
     IN
       rest' = [rest EXCEPT
                  !.pc = IF IsOk(s) THEN "returned" ELSE "threw",
                  !.result = IF ~IsOk(s) THEN "error"
                             ELSE IF json = JsNull THEN "null" ELSE "json",
                  !.json = IF IsOk(s) THEN json ELSE JsNull,
                  !.err = IF IsOk(s) THEN NoError
                          ELSE ErrorOf(rest.hist, rest.bodyLen)]
  /\ UNCHANGED <<storeVars, procVars, find, ups, libVars>>

\* the caller has the value or the error; adminREST keeps nothing between calls
RestLeave ==
  /\ rest.pc \in {"returned", "threw"}
  /\ rest' = RestIdle
  /\ UNCHANGED <<storeVars, procVars, find, ups, libVars>>

------------------------------------------------------------------------------
(* findCustomerIdByEmailExact *)

FindExactFirstCandidate(results, emailLower) ==
  IF results = <<>> THEN Null ELSE results[1].id

\* const c = resp?.customers?.[0];
\* if (c && (c.email || '').toLowerCase() === emailLower) return c.id; return null
FindExact(results, emailLower) ==
  IF results = <<>> THEN Null
  ELSE IF ToLower(results[1].email) = emailLower THEN results[1].id
  ELSE Null

\* what a caller would see if the failure of the search call left the resolver
Propagated == Null - 1

FindResultPropagating(thrown, results, emailLower) ==
  IF thrown THEN Propagated ELSE FindExact(results, emailLower)

\* the try/catch around the search call: a failed search is "not found"
FindResult(thrown, results, emailLower) ==
  IF thrown THEN Null ELSE FindExact(results, emailLower)

QueryEmails == {<<"a">>, <<"a", "b">>, <<"b">>}
CandidateEmails == {<<>>, <<"a">>, <<"A">>, <<"a", "b">>}
Candidates == {[id |-> i, email |-> e] : i \in 1..2, e \in CandidateEmails}

RECURSIVE SeqsUpTo(_, _)
SeqsUpTo(S, n) ==
  IF n = 0 THEN {<<>>}
  ELSE LET shorter == SeqsUpTo(S, n - 1) IN
         shorter \cup {Append(q, x) : q \in shorter, x \in S}

FindIdle == [pc |-> "idle", q |-> <<>>, thrown |-> FALSE, results |-> <<>>,
             ret |-> Null]

\* a caller invokes findCustomerIdByEmailExact(emailLower)
FindCall ==
  /\ find.pc \in {"idle", "done"}
  /\ \E q \in QueryEmails : find' = [FindIdle EXCEPT !.pc = "searching", !.q = q]
  /\ UNCHANGED <<storeVars, procVars, rest, ups, libVars>>

\* the search call throws
FindThrow ==
  /\ find.pc = "searching"
  /\ find' = [find EXCEPT !.pc = "done", !.thrown = TRUE,
                          !.ret = FindResult(TRUE, <<>>, find.q)]
  /\ UNCHANGED <<storeVars, procVars, rest, ups, libVars>>

\* the search call returns a candidate list
FindReturn ==
  /\ find.pc = "searching"
  /\ \E rs \in SeqsUpTo(Candidates, MaxCandidates) :
       find' = [find EXCEPT !.pc = "done", !.results = rs,
                            !.ret = FindResult(FALSE, rs, find.q)]
  /\ UNCHANGED <<storeVars, procVars, rest, ups, libVars>>

------------------------------------------------------------------------------
(* The remote attribute store and upsertMetafieldREST *)

\* GET /customers/{id}/metafields.json
ListMetafields(store, owner) ==
  LET Mine(m) == m.owner = owner IN SelectSeq(store, Mine)

FindMetafieldNever(list, namespace, key) == Null

\* (list?.metafields || []).find(m => m.namespace === namespace && m.key === key)
\* as the identifier of the attribute found, Null when none
FindMetafield(list, namespace, key) ==
  LET hits == {i \in 1..Len(list) : list[i].namespace = namespace /\ list[i].key = key}
  IN IF hits = {} THEN Null
     ELSE list[CHOOSE i \in hits : \A j \in hits : i <= j].id

\* POST /customers/{id}/metafields.json
PostMetafield(store, id, owner, namespace, key, type, value) ==
  Append(store, [id |-> id, owner |-> owner, namespace |-> namespace, key |-> key,
                 type |-> type, value |-> value])

\* PUT /metafields/{id}.json
PutMetafield(store, id, type, value) ==
  [i \in 1..Len(store) |->
     IF store[i].id = id THEN [store[i] EXCEPT !.type = type, !.value = value]
     ELSE store[i]]

TextType == "single_line_text_field"
BooleanType == "boolean"
TrueValue == <<"t", "r", "u", "e">>

UpsertArgs ==
  {[owner |-> o, namespace |-> ns, key |-> k, type |-> TextType, value |-> v] :
     o \in {1, 2}, ns \in {"custom", "other"}, k \in {"custom_site_id"},
     v \in {<<"9">>, <<"8">>}}
  \cup
  {[owner |-> 1, namespace |-> "custom", key |-> "approved", type |-> BooleanType,
    value |-> TrueValue]}

NoArgs == [owner |-> 0, namespace |-> "", key |-> "", type |-> "", value |-> <<>>]

UpsIdle == [pc |-> "idle", args |-> NoArgs, existing |-> Null, posted |-> FALSE,
            prevOk |-> FALSE, prevArgs |-> NoArgs, prevStore |-> <<>>, n |-> 0]

\* a caller invokes upsertMetafieldREST after the previous call has ended
UpsCall ==
  /\ ups.pc \in {"idle", "done", "failed"}
  /\ ups.n < MaxUpserts
  /\ \E a \in UpsertArgs :
       ups' = [ups EXCEPT !.pc = "list", !.args = a, !.existing = Null,
                          !.posted = FALSE, !.n = @ + 1,
                          !.prevOk = (ups.pc = "done"),
                          !.prevArgs = ups.args, !.prevStore = metafields]
  /\ UNCHANGED <<storeVars, procVars, rest, find, libVars>>

\* const list = await adminREST(.../metafields.json); const existing = ...find(...)
UpsList ==
  /\ ups.pc = "list"
  /\ \/ ups' = [ups EXCEPT !.pc = "failed"]
     \/ ups' = [ups EXCEPT !.pc = "write",
                  !.existing = FindMetafield(ListMetafields(metafields, ups.args.owner),
                                             ups.args.namespace, ups.args.key)]
  /\ UNCHANGED <<storeVars, procVars, rest, find, libVars>>

\* if (!existing) POST ... else PUT ...
UpsWrite ==
  /\ ups.pc = "write"
  /\ \/ /\ ups' = [ups EXCEPT !.pc = "failed"]
        /\ UNCHANGED <<metafields, nextMfId>>
     \/ /\ ups.existing = Null
        /\ metafields' = PostMetafield(metafields, nextMfId, ups.args.owner,
                            ups.args.namespace, ups.args.key, ups.args.type,
                            ups.args.value)
        /\ nextMfId' = nextMfId + 1
        /\ ups' = [ups EXCEPT !.pc = "done", !.posted = TRUE]
     \/ /\ ups.existing # Null
        /\ metafields' = PutMetafield(metafields, ups.existing, ups.args.type,
                                      ups.args.value)
        /\ UNCHANGED nextMfId
        /\ ups' = [ups EXCEPT !.pc = "done"]
  /\ UNCHANGED <<customers, nextId, procVars, rest, find, libVars>>

------------------------------------------------------------------------------
(* The remote customer store, as the handlers see it *)

IsPrefix(a, b) == Len(a) <= Len(b) /\ SubSeq(b, 1, Len(a)) = a

\* GET /customers/search.json?query=email:"q": the records whose email equals
\* the query come first, then the near matches of the search index
SearchResponse(store, q) ==
  LET lq == ToLower(q)
      Exact(c) == ToLower(c.email) = lq
      Near(c) == /\ ~Exact(c)
                 /\ IsPrefix(ToLower(c.email), lq) \/ IsPrefix(lq, ToLower(c.email))
  IN SelectSeq(store, Exact) \o SelectSeq(store, Near)

StrayEmail == <<"z">>

\* GET /customers/{id}.json: the stored record, or a record carrying another
\* email (a stale identifier or an identifier collision)
GetCustomerReplies(store, id) ==
  LET stored == {store[i] : i \in {j \in 1..Len(store) : store[j].id = id}}
  IN stored \cup {[c EXCEPT !.email = StrayEmail] : c \in stored}

\* POST /customers.json, customerCreate: the store accepts every create
CreateCustomer(store, id, email, tags) ==
  Append(store, [id |-> id, email |-> email, tags |-> tags])

\* tag names, as strings of characters
Approved == <<"a", "p", "p", "r", "o", "v", "e", "d">>
Vip == <<"v", "i", "p">>

\* tags.join(', '), as the pieces a later split(',') of the stored string gives
JoinTags(tags) ==
  [i \in 1..Len(tags) |-> IF i = 1 THEN tags[i] ELSE <<" ">> \o tags[i]]

\* PUT /customers/{id}.json with tags; the record's tags are held as the pieces
\* between the commas of the tags string
SetTags(store, id, tags) ==
  [i \in 1..Len(store) |->
     IF store[i].id = id THEN [store[i] EXCEPT !.tags = tags] ELSE store[i]]

Range(s) == {s[i] : i \in 1..Len(s)}

ParseTagsUntrimmed(tags) ==
  LET NonEmpty(t) == t # <<>> IN SelectSeq(tags, NonEmpty)

\* (tags || '').split(',').map(t => t.trim()).filter(Boolean)
ParseTags(tags) ==
  LET NonEmpty(t) == t # <<>>
  IN SelectSeq([i \in 1..Len(tags) |-> Trim(tags[i])], NonEmpty)

RECURSIVE Dedupe(_)
Dedupe(s) ==
  IF s = <<>> THEN <<>>
  ELSE LET front == Dedupe(SubSeq(s, 1, Len(s) - 1)) IN
         IF s[Len(s)] \in Range(front) THEN front ELSE Append(front, s[Len(s)])

\* if (!existingTags.includes('approved')) existingTags.push('approved')
PushApproved(tags) == IF Approved \in Range(tags) THEN tags ELSE Append(tags, Approved)

\* const tagSet = new Set(existingTags); tagSet.add('approved'); Array.from(tagSet)
TagSetWithApproved(tags) == PushApproved(Dedupe(tags))

------------------------------------------------------------------------------
(* normalizePhone *)

Digits == {"0", "1", "2", "3", "4", "5", "6", "7", "8", "9"}

AllDigits(s) == \A i \in 1..Len(s) : s[i] \in Digits

\* v.replace(/[^\d+]/g, '')
StripPhone(s) == LET Keep(c) == c \in Digits \cup {"+"} IN SelectSeq(s, Keep)

NormalizePhoneUnbounded(raw) ==
  LET v == Trim(raw) IN
    IF v = <<>> THEN <<>>
    ELSE LET s0 == StripPhone(v)
             s  == IF Len(s0) = 10 /\ AllDigits(s0) THEN <<"+", "1">> \o s0 ELSE s0
         IN IF /\ s # <<>>
               /\ Head(s) = "+"
               /\ AllDigits(Tail(s))
               /\ Len(s) - 1 >= 8
            THEN s ELSE <<>>

\* normalizePhone(raw); the empty string stands for null
NormalizePhone(raw) ==
  LET v == Trim(raw) IN
    IF v = <<>> THEN <<>>
    ELSE LET s0 == StripPhone(v)
             s  == IF Len(s0) = 10 /\ AllDigits(s0) THEN <<"+", "1">> \o s0 ELSE s0
         IN IF /\ s # <<>>
               /\ Head(s) = "+"
               /\ AllDigits(Tail(s))
               /\ Len(s) - 1 >= 8
               /\ Len(s) - 1 <= 15
            THEN s ELSE <<>>

------------------------------------------------------------------------------
(* The register handler: requests, locals, responses *)

Procs == {1, 2}

SiteIds == {<<"9">>}

\* data/site-directory.json
Directory == [s \in SiteIds |-> [accountName |-> <<"N">>, accountId |-> <<"I">>]]

\* data/site-ids.json
IdSet == SiteIds

\* a name every object inherits from Object.prototype
ConstructorKey == <<"c", "o", "n", "s", "t", "r", "u", "c", "t", "o", "r">>
InheritedKeys == {ConstructorKey}

\* (directory as Dir)[s], a property read on the object of the JSON file: an
\* own entry, or what the object inherits under that name (truthy, without
\* accountName and accountId), or undefined; the empty string stands for an
\* absent accountName or accountId
DirLookup(s) ==
  IF s \in DOMAIN Directory
  THEN [found |-> TRUE, accountName |-> Directory[s].accountName,
        accountId |-> Directory[s].accountId]
  ELSE IF s \in InheritedKeys
  THEN [found |-> TRUE, accountName |-> <<>>, accountId |-> <<>>]
  ELSE [found |-> FALSE, accountName |-> <<>>, accountId |-> <<>>]

MinPasswordLen == 8
GeneratedPasswordLen == 18

RawEmails == {<<>>, <<"a">>, <<"A", "b">>}
RawSiteIds == {<<>>, <<" ">>, <<"9", " ">>, <<"7">>}
TenDigitPhone == <<"5", "5", "5", "-", "1", "2", "3", "4", "5", "6", "7">>
RestProfiles ==
  { [update |-> FALSE, pwLen |-> 8, phone |-> TenDigitPhone, titleRole |-> <<"R">>],
    [update |-> FALSE, pwLen |-> 7, phone |-> <<>>, titleRole |-> <<>>],
    [update |-> TRUE, pwLen |-> 0, phone |-> TenDigitPhone, titleRole |-> <<"R">>] }

StorefrontProfiles ==
  { [update |-> FALSE, pwLen |-> 8, phone |-> <<>>, titleRole |-> <<"R", " ">>],
    [update |-> FALSE, pwLen |-> 7, phone |-> <<>>, titleRole |-> <<>>] }

\* the revision that requires the password before anything else
ClassicProfiles ==
  { [update |-> FALSE, pwLen |-> 8, phone |-> <<>>, titleRole |-> <<>>],
    [update |-> FALSE, pwLen |-> 7, phone |-> <<>>, titleRole |-> <<"R">>] }

RequestOf(variant, e, s, f) ==
  [variant |-> variant, email |-> e, siteId |-> s, update |-> f.update,
   pwLen |-> f.pwLen, phone |-> f.phone, titleRole |-> f.titleRole]

\* the request bodies the handlers are driven with
Requests ==
  {RequestOf("rest", e, s, f) : e \in RawEmails, s \in RawSiteIds, f \in RestProfiles}
  \cup
  {RequestOf("storefront", e, s, f) :
     e \in RawEmails, s \in RawSiteIds, f \in StorefrontProfiles}

ClassicRequests ==
  {RequestOf("classic", e, s, f) :
     e \in RawEmails, s \in RawSiteIds, f \in ClassicProfiles}

\* requests to the directory revision whose siteId is an inherited name
InheritedKeyRequests ==
  {RequestOf("rest", e, s, f) : e \in RawEmails, s \in InheritedKeys, f \in RestProfiles}

\* the request bodies of the one-request-at-a-time runs: every revision
SerialRequests == Requests \cup ClassicRequests \cup InheritedKeyRequests

NoReq == [variant |-> "none", email |-> <<>>, siteId |-> <<>>, update |-> FALSE,
          pwLen |-> 0, phone |-> <<>>, titleRole |-> <<>>]

NoLoc == [emailLower |-> <<>>, siteIdStr |-> <<>>, customerId |-> Null,
          action |-> "", updateOnly |-> FALSE, finalPassword |-> 0,
          tags |-> <<>>, mfIdx |-> 0, mfExisting |-> Null]

NoResp == [sent |-> FALSE, status |-> 200, ok |-> FALSE, error |-> "", field |-> "",
           action |-> "", customerId |-> Null, password |-> 0]

JsonErrStatus(error, field) ==
  [NoResp EXCEPT !.sent = TRUE, !.error = error, !.field = field, !.status = 500]

\* jsonErr(res, error, field), and the storefront revision's res.json({ok:false,...})
JsonErr(error, field) == [NoResp EXCEPT !.sent = TRUE, !.error = error, !.field = field]

Call(op, id, key, val, fields) ==
  [op |-> op, id |-> id, key |-> key, val |-> val, fields |-> fields, phone |-> <<>>]

\* a call whose body carries a phone value (none when the value is undefined:
\* JSON.stringify leaves the property out)
WithPhone(call, phone) == [call EXCEPT !.phone = phone]

\* the phone of the create body: normalizePhone(phone) || undefined in the
\* directory revision, phone || undefined (phone || null) in the others
CreatePhone(r) == IF r.variant = "rest" THEN NormalizePhone(r.phone) ELSE r.phone

\* the search call of findCustomerIdByEmailExact together with what the resolver
\* returned to the handler: an identifier, or Null (none found, or the call failed)
SearchCall(returned, emailLower) ==
  Call("search", IF returned = Propagated THEN Null ELSE returned, "", emailLower, {})

\* one step of the handler of slot p: new position, locals, response, calls issued
Step(p, newPc, newLoc, newResp, calls) ==
  /\ pc' = [pc EXCEPT ![p] = newPc]
  /\ loc' = [loc EXCEPT ![p] = IF newPc = "done" THEN NoLoc ELSE newLoc]
  /\ resp' = [resp EXCEPT ![p] = newResp]
  /\ log' = [log EXCEPT ![p] = @ \o calls]

\* catch (e) { return jsonErr(res, String(e?.message || e)) }
Fail(p, calls) == Step(p, "done", loc[p], JsonErr("exception", ""), calls)

\* the directory revision, up to the first remote call
ValidateRest(r) ==
  LET emailLower == Trim(ToLower(r.email))
      siteIdStr  == Trim(r.siteId)
      error == IF emailLower = <<>> THEN JsonErr("Missing email", "email")
               ELSE IF siteIdStr = <<>> THEN JsonErr("Missing siteId", "siteId")
               ELSE IF ~DirLookup(siteIdStr).found
                    THEN JsonErr("Invalid Site ID", "siteId")
               ELSE NoResp
  IN [resp |-> error, emailLower |-> emailLower, siteIdStr |-> siteIdStr]

\* the storefront revision, up to the first remote call
ValidateStorefront(r) ==
  LET siteIdStr == Trim(r.siteId)
      error == IF r.email = <<>> \/ r.siteId = <<>>
                 THEN JsonErr("Missing email or siteId", "")
               ELSE IF siteIdStr \notin IdSet THEN JsonErr("Invalid Site ID", "siteId")
               ELSE NoResp
  IN [resp |-> error, emailLower |-> ToLower(r.email), siteIdStr |-> siteIdStr]

\* the revision that takes the password up front, up to the first remote call
ValidateClassic(r) ==
  LET emailLower == Trim(ToLower(r.email))
      siteIdStr  == Trim(r.siteId)
      error == IF r.email = <<>> \/ r.siteId = <<>>
                 THEN JsonErr("Missing email or siteId", "")
               ELSE IF r.pwLen = 0 \/ r.pwLen < MinPasswordLen
                 THEN JsonErr("Password must be at least 8 characters", "password")
               ELSE IF siteIdStr \notin IdSet THEN JsonErr("Invalid Site ID", "siteId")
               ELSE NoResp
  IN [resp |-> error, emailLower |-> emailLower, siteIdStr |-> siteIdStr]

Validate(r) ==
  IF r.variant = "rest" THEN ValidateRest(r)
  ELSE IF r.variant = "classic" THEN ValidateClassic(r)
  ELSE ValidateStorefront(r)

\* the attributes the handler upserts, in order
MetaPlan(r, l) ==
  LET Text(k, v) == [key |-> k, type |-> TextType, value |-> v] IN
  IF r.variant = "rest"
  THEN << Text("custom_site_id", l.siteIdStr),
          Text("account_name", DirLookup(l.siteIdStr).accountName),
          Text("account_id", DirLookup(l.siteIdStr).accountId),
          Text("title_role", r.titleRole) >>
  ELSE IF r.variant = "classic"
  THEN << Text("custom_site_id", l.siteIdStr), Text("titlerole", r.titleRole) >>
  ELSE << Text("custom_site_id", l.siteIdStr),
          [key |-> "approved", type |-> BooleanType, value |-> TrueValue] >>
       \o (IF Trim(r.titleRole) # <<>>
           THEN << Text("titlerole", Trim(r.titleRole)) >> ELSE <<>>)

\* the ok:true payload
OkResp(r, l) ==
  [NoResp EXCEPT !.sent = TRUE, !.ok = TRUE, !.action = l.action,
                 !.customerId = l.customerId,
                 !.password =
                   IF r.variant = "rest"
                   THEN (IF ~l.updateOnly /\ l.action = "created" /\ r.pwLen # 0
                         THEN r.pwLen ELSE 0)
                   ELSE IF r.variant = "classic" THEN r.pwLen
                   ELSE (IF l.action = "created" /\ l.finalPassword # 0
                         THEN l.finalPassword ELSE 0)]

------------------------------------------------------------------------------
(* The register handler: one action per stretch between two remote calls *)

NameFieldsWithPassword == {"id", "first_name", "last_name", "password"}

NameFields == {"id", "first_name", "last_name"}
CreateFields == {"email", "first_name", "last_name", "phone", "verified_email", "tags",
                 "password", "password_confirmation", "send_email_welcome"}
StorefrontCreateFields == {"email", "password", "firstName", "lastName", "phone",
                           "acceptsMarketing"}

\* where the handler goes once the core fields are written
AfterCore(l) == IF l.updateOnly THEN "uo_get" ELSE "confirm"

\* a request drawn from R arrives; validation runs up to the first remote call
ReceiveFrom(p, R) ==
  /\ pc[p] \in {"idle", "done"}
  /\ \A q \in Procs : q < p => pc[q] # "idle"
  /\ nreq < MaxRequests
  /\ nreq' = nreq + 1
  /\ \E r \in R :
       LET v == Validate(r) IN
         /\ req' = [req EXCEPT ![p] = r]
         /\ log' = [log EXCEPT ![p] = <<>>]
         /\ resp' = [resp EXCEPT ![p] = v.resp]
         /\ IF v.resp.sent
            THEN /\ pc' = [pc EXCEPT ![p] = "done"]
                 /\ loc' = [loc EXCEPT ![p] = NoLoc]
            ELSE /\ pc' = [pc EXCEPT ![p] = "lookup"]
                 /\ loc' = [loc EXCEPT ![p] = [NoLoc EXCEPT !.emailLower = v.emailLower,
                                                            !.siteIdStr = v.siteIdStr]]
  /\ UNCHANGED <<storeVars, rest, find, ups, libVars>>

Receive(p) == ReceiveFrom(p, Requests)

BranchUpdateFlagIgnored(r, existingId) ==
  IF existingId # Null THEN (IF r.update THEN "update_only" ELSE "update")
  ELSE IF r.variant = "rest"
  THEN (IF r.pwLen = 0 \/ r.pwLen < MinPasswordLen THEN "password" ELSE "create")
  ELSE IF r.variant = "classic" THEN "create"
  ELSE "sf_create"

\* the branch the handler takes once the lookup has answered
Branch(r, existingId) ==
  IF r.variant = "rest" /\ r.update
  THEN (IF existingId = Null THEN "no_account" ELSE "update_only")
  ELSE IF existingId # Null THEN "update"
  ELSE IF r.variant = "rest"
  THEN (IF r.pwLen = 0 \/ r.pwLen < MinPasswordLen THEN "password" ELSE "create")
  ELSE IF r.variant = "classic" THEN "create"
  ELSE "sf_create"

\* const existingId = await findCustomerIdByEmailExact(emailLower), and the
\* branch on update / existingId / password that follows it; anything the
\* resolver let through would end in the handler's catch
Lookup(p) ==
  /\ pc[p] = "lookup"
  /\ \E thrown \in BOOLEAN :
       LET l == loc[p]
           r == req[p]
           existingId == FindResult(thrown, SearchResponse(customers, l.emailLower),
                                    l.emailLower)
           calls == << SearchCall(existingId, l.emailLower) >>
           found == [l EXCEPT !.customerId = existingId, !.action = "updated"]
           branch == Branch(r, existingId)
       IN CASE existingId = Propagated -> Fail(p, calls)
            [] existingId # Propagated /\ branch = "no_account" ->
                 Step(p, "done", l,
                      JsonErr("No existing account for that email", "email"), calls)
            [] existingId # Propagated /\ branch = "update_only" ->
                 Step(p, "put_name", [found EXCEPT !.updateOnly = TRUE], NoResp, calls)
            [] existingId # Propagated /\ branch = "update" ->
                 Step(p, "put_name", found, NoResp, calls)
            [] existingId # Propagated /\ branch = "password" ->
                 Step(p, "done", l,
                      JsonErr("Password must be at least 8 characters", "password"),
                      calls)
            [] existingId # Propagated /\ branch = "create" ->
                 Step(p, "create", l, NoResp, calls)
            [] OTHER ->
                 Step(p, "sf_create",
                      [l EXCEPT !.finalPassword =
                         IF r.pwLen >= MinPasswordLen THEN r.pwLen
                         ELSE GeneratedPasswordLen],
                      NoResp, calls)
  /\ UNCHANGED <<storeVars, nreq, req, rest, find, ups, libVars>>

\* POST /customers.json; createResp?.customer?.id ?? (recovery lookup)
Create(p) ==
  /\ pc[p] = "create"
  /\ LET l == loc[p]
         calls == << WithPhone(Call("create", Null, "", l.emailLower, CreateFields),
                              CreatePhone(req[p])) >>
     IN \/ /\ Fail(p, calls)
           /\ UNCHANGED <<customers, nextId>>
        \/ /\ customers' = CreateCustomer(customers, nextId, l.emailLower, <<Approved>>)
           /\ nextId' = nextId + 1
           /\ \/ Step(p, "confirm",
                      [l EXCEPT !.customerId = nextId, !.action = "created"],
                      NoResp, calls)
              \/ Step(p, "recheck", l, NoResp, calls)
  /\ UNCHANGED <<metafields, nextMfId, nreq, req, rest, find, ups, libVars>>

RecheckAgain(p) ==
  /\ pc[p] = "recheck"
  /\ \E thrown \in BOOLEAN :
       LET l == loc[p]
           id == FindResult(thrown, SearchResponse(customers, l.emailLower),
                            l.emailLower)
           calls == << SearchCall(id, l.emailLower) >>
       IN IF id = Null
          THEN Step(p, "create", l, NoResp, calls)
          ELSE Step(p, "confirm", [l EXCEPT !.customerId = id, !.action = "created"],
                    NoResp, calls)
  /\ UNCHANGED <<storeVars, nreq, req, rest, find, ups, libVars>>

\* the one recovery lookup after a create response without an identifier
Recheck(p) ==
  /\ pc[p] = "recheck"
  /\ \E thrown \in BOOLEAN :
       LET l == loc[p]
           id == FindResult(thrown, SearchResponse(customers, l.emailLower),
                            l.emailLower)
           calls == << SearchCall(id, l.emailLower) >>
       IN IF id = Propagated THEN Fail(p, calls)
          ELSE IF id = Null
          THEN Step(p, "done", l, JsonErr("Customer create returned no id", ""), calls)
          ELSE Step(p, "confirm", [l EXCEPT !.customerId = id, !.action = "created"],
                    NoResp, calls)
  /\ UNCHANGED <<storeVars, nreq, req, rest, find, ups, libVars>>

\* storefrontGraphQL(SF_CUSTOMER_CREATE, ...), userErrors, gid
StorefrontCreate(p) ==
  /\ pc[p] = "sf_create"
  /\ LET l == loc[p]
         calls == << WithPhone(Call("sf_create", Null, "", l.emailLower,
                                   StorefrontCreateFields),
                              CreatePhone(req[p])) >>
     IN \/ /\ Fail(p, calls)
           /\ UNCHANGED <<customers, nextId>>
        \/ /\ Step(p, "done", l, JsonErr("userErrors", "email"), calls)
           /\ UNCHANGED <<customers, nextId>>
        \/ /\ Step(p, "done", l, JsonErr("customerCreate returned no id", ""), calls)
           /\ UNCHANGED <<customers, nextId>>
        \/ /\ customers' = CreateCustomer(customers, nextId, l.emailLower, <<>>)
           /\ nextId' = nextId + 1
           /\ Step(p, "confirm", [l EXCEPT !.customerId = nextId, !.action = "created"],
                   NoResp, calls)
  /\ UNCHANGED <<metafields, nextMfId, nreq, req, rest, find, ups, libVars>>

\* PUT /customers/{id}.json with the names
PutName(p) ==
  /\ pc[p] = "put_name"
  /\ LET l == loc[p]
         r == req[p]
         calls == << Call("put_name", l.customerId, "", <<>>, NameFields) >>
     IN \/ Fail(p, calls)
        \/ IF r.variant = "rest" /\ NormalizePhone(r.phone) # <<>>
           THEN Step(p, "put_phone", l, NoResp, calls)
           ELSE Step(p, AfterCore(l), l, NoResp, calls)
  /\ UNCHANGED <<storeVars, nreq, req, rest, find, ups, libVars>>

\* try { PUT /customers/{id}.json with the phone } catch {}
PutPhone(p) ==
  /\ pc[p] = "put_phone"
  /\ LET l == loc[p] IN
       Step(p, AfterCore(l), l, NoResp,
            << WithPhone(Call("put_phone", l.customerId, "", NormalizePhone(req[p].phone),
                              {"id", "phone"}),
                         NormalizePhone(req[p].phone)) >>)
  /\ UNCHANGED <<storeVars, nreq, req, rest, find, ups, libVars>>

\* const confirm = await adminREST(GET /customers/{id}.json); the email check
\* and the tag computation that follow it
Confirm(p) ==
  /\ pc[p] = "confirm"
  /\ LET l == loc[p] IN
       \/ Fail(p, << Call("get", l.customerId, "", <<>>, {}) >>)
       \/ \E reply \in GetCustomerReplies(customers, l.customerId) :
            LET calls == << Call("get", l.customerId, "ok", reply.email, {}) >>
                existingTags == ParseTags(reply.tags)
            IN IF ToLower(reply.email) # l.emailLower
               THEN Step(p, "done", l, JsonErr("ID/email mismatch", ""), calls)
               ELSE IF req[p].variant = "rest"
               THEN IF Approved \notin Range(existingTags)
                    THEN Step(p, "put_tags",
                              [l EXCEPT !.tags = PushApproved(existingTags)],
                              NoResp, calls)
                    ELSE Step(p, "mf_list", [l EXCEPT !.mfIdx = 1], NoResp, calls)
               ELSE Step(p, "put_tags",
                         [l EXCEPT !.tags = TagSetWithApproved(existingTags)],
                         NoResp, calls)
  /\ UNCHANGED <<storeVars, nreq, req, rest, find, ups, libVars>>

\* update-only branch: try { GET /customers/{cid}.json; tags } catch {}
UpdateOnlyGet(p) ==
  /\ pc[p] = "uo_get"
  /\ LET l == loc[p] IN
       \/ Step(p, "mf_list", [l EXCEPT !.mfIdx = 1], NoResp,
               << Call("get", l.customerId, "", <<>>, {}) >>)
       \/ \E reply \in GetCustomerReplies(customers, l.customerId) :
            LET calls == << Call("get", l.customerId, "ok", reply.email, {}) >>
                tags == ParseTags(reply.tags)
            IN IF Approved \notin Range(tags)
               THEN Step(p, "put_tags", [l EXCEPT !.tags = PushApproved(tags)],
                         NoResp, calls)
               ELSE Step(p, "mf_list", [l EXCEPT !.mfIdx = 1], NoResp, calls)
  /\ UNCHANGED <<storeVars, nreq, req, rest, find, ups, libVars>>

\* PUT /customers/{id}.json with the tags
PutTags(p) ==
  /\ pc[p] = "put_tags"
  /\ LET l == loc[p]
         calls == << Call("put_tags", l.customerId, "", <<>>, {"id", "tags"}) >>
     IN \/ /\ IF l.updateOnly
              THEN Step(p, "mf_list", [l EXCEPT !.mfIdx = 1], NoResp, calls)
              ELSE Fail(p, calls)
           /\ UNCHANGED customers
        \/ /\ customers' = SetTags(customers, l.customerId, JoinTags(l.tags))
           /\ Step(p, "mf_list", [l EXCEPT !.mfIdx = 1], NoResp, calls)
  /\ UNCHANGED <<nextId, metafields, nextMfId, nreq, req, rest, find, ups, libVars>>

\* upsertMetafieldREST, first call: list the owner's attributes and look for the key
MetafieldList(p) ==
  /\ pc[p] = "mf_list"
  /\ LET l == loc[p]
         m == MetaPlan(req[p], l)[l.mfIdx]
         calls == << Call("mf_list", l.customerId, m.key, <<>>, {}) >>
     IN \/ Fail(p, calls)
        \/ Step(p, "mf_write",
                [l EXCEPT !.mfExisting =
                   FindMetafield(ListMetafields(metafields, l.customerId), "custom", m.key)],
                NoResp, calls)
  /\ UNCHANGED <<storeVars, nreq, req, rest, find, ups, libVars>>

\* upsertMetafieldREST, second call: POST when nothing was found, else PUT;
\* after the last attribute the ok:true response is sent
MetafieldWrite(p) ==
  /\ pc[p] = "mf_write"
  /\ LET l == loc[p]
         plan == MetaPlan(req[p], l)
         m == plan[l.mfIdx]
         calls == << Call(IF l.mfExisting = Null THEN "mf_post" ELSE "mf_put",
                          l.customerId, m.key, m.value, {}) >>
         after == [l EXCEPT !.mfIdx = @ + 1, !.mfExisting = Null]
     IN \/ /\ Fail(p, calls)
           /\ UNCHANGED <<metafields, nextMfId>>
        \/ /\ IF l.mfExisting = Null
              THEN /\ metafields' = PostMetafield(metafields, nextMfId, l.customerId,
                                                  "custom", m.key, m.type, m.value)
                   /\ nextMfId' = nextMfId + 1
              ELSE /\ metafields' = PutMetafield(metafields, l.mfExisting, m.type, m.value)
                   /\ UNCHANGED nextMfId
           /\ IF l.mfIdx = Len(plan)
              THEN Step(p, "done", after, OkResp(req[p], l), calls)
              ELSE Step(p, "mf_list", after, NoResp, calls)
  /\ UNCHANGED <<customers, nextId, nreq, req, rest, find, ups, libVars>>

------------------------------------------------------------------------------
(* The customer-save handler *)

SaveSiteIds == {<<>>, <<"9">>, <<"7">>}

SaveRequests ==
  {[variant |-> "save", email |-> e, siteId |-> s, update |-> FALSE, pwLen |-> 0,
    phone |-> <<>>, titleRole |-> t] :
     e \in {<<>>, <<"a">>, <<"a", "b">>}, s \in SaveSiteIds, t \in {<<>>, <<"R">>}}

\* res.status(code).json({ ok:false, error })
SaveErr(code, error) == [JsonErr(error, "") EXCEPT !.status = code]

\* step 3: the metafields pushed for the request
SaveMetas(r) ==
  (IF r.siteId # <<>>
   THEN << [key |-> "custom_site_id", type |-> TextType, value |-> r.siteId] >>
   ELSE <<>>)
  \o
  (IF r.titleRole # <<>>
   THEN << [key |-> "title_role", type |-> TextType, value |-> r.titleRole] >>
   ELSE <<>>)

\* metafieldsSet: the remote store sets each (owner, namespace, key) in one call
RECURSIVE MetafieldsSet(_, _, _, _)
MetafieldsSet(store, id, owner, metas) ==
  IF metas = <<>> THEN store
  ELSE LET m == Head(metas)
           existing == FindMetafield(ListMetafields(store, owner), "custom", m.key)
       IN IF existing = Null
          THEN MetafieldsSet(PostMetafield(store, id, owner, "custom", m.key, m.type,
                                           m.value),
                             id + 1, owner, Tail(metas))
          ELSE MetafieldsSet(PutMetafield(store, existing, m.type, m.value),
                             id, owner, Tail(metas))

\* a request arrives: if (!email) return 400
SaveReceive(p) ==
  /\ pc[p] \in {"idle", "done"}
  /\ \A q \in Procs : q < p => pc[q] # "idle"
  /\ nreq < MaxRequests
  /\ nreq' = nreq + 1
  /\ \E r \in SaveRequests :
       /\ req' = [req EXCEPT ![p] = r]
       /\ log' = [log EXCEPT ![p] = <<>>]
       /\ loc' = [loc EXCEPT ![p] = NoLoc]
       /\ IF r.email = <<>>
          THEN /\ pc' = [pc EXCEPT ![p] = "done"]
               /\ resp' = [resp EXCEPT ![p] = SaveErr(400, "Missing email")]
          ELSE /\ pc' = [pc EXCEPT ![p] = "cs_find"]
               /\ resp' = [resp EXCEPT ![p] = NoResp]
  /\ UNCHANGED <<storeVars, rest, find, ups, libVars>>

\* 1) find customer by email: customers(first:1, query:"email:<email>")
SaveFind(p) ==
  /\ pc[p] = "cs_find"
  /\ LET l == loc[p]
         results == SearchResponse(customers, req[p].email)
         calls == << Call("gql_search", Null, "", req[p].email, {}) >>
     IN \/ Step(p, "done", l, SaveErr(500, "exception"), calls)
        \/ IF results = <<>>
           THEN Step(p, "done", l, SaveErr(404, "Customer not found"), calls)
           ELSE Step(p, "cs_update", [l EXCEPT !.customerId = results[1].id],
                     NoResp, calls)
  /\ UNCHANGED <<storeVars, nreq, req, rest, find, ups, libVars>>

\* 2) customerUpdate, then the metafields to push are collected
SaveUpdate(p) ==
  /\ pc[p] = "cs_update"
  /\ LET l == loc[p]
         calls == << Call("customer_update", l.customerId, "", <<>>,
                          {"id", "phone", "firstName", "lastName"}) >>
     IN \/ Step(p, "done", l, SaveErr(500, "exception"), calls)
        \/ IF SaveMetas(req[p]) = <<>>
           THEN Step(p, "done", l, [NoResp EXCEPT !.sent = TRUE, !.ok = TRUE], calls)
           ELSE Step(p, "cs_metas", l, NoResp, calls)
  /\ UNCHANGED <<storeVars, nreq, req, rest, find, ups, libVars>>

\* 3) metafieldsSet, then 200 { ok:true }
SaveMetafields(p) ==
  /\ pc[p] = "cs_metas"
  /\ LET l == loc[p]
         metas == SaveMetas(req[p])
         calls == [i \in 1..Len(metas) |->
                     Call("mf_set", l.customerId, metas[i].key, metas[i].value, {})]
         after == MetafieldsSet(metafields, nextMfId, l.customerId, metas)
     IN \/ /\ Step(p, "done", l, SaveErr(500, "exception"), calls)
           /\ UNCHANGED <<metafields, nextMfId>>
        \/ /\ metafields' = after
           /\ nextMfId' = nextMfId + (Len(after) - Len(metafields))
           /\ Step(p, "done", l, [NoResp EXCEPT !.sent = TRUE, !.ok = TRUE], calls)
  /\ UNCHANGED <<customers, nextId, nreq, req, rest, find, ups, libVars>>

------------------------------------------------------------------------------
(* lib/site-directory.ts: the CSV parser *)

Quote == "\""
Comma == ","
Newline == "\n"
Return == "\r"

\* the state of parseCSV's loop: the position, the quote mode, the cell and
\* the row being read, the rows pushed so far
ParseStart == [i |-> 1, q |-> FALSE, cell |-> <<>>, cur |-> <<>>, rows |-> <<>>]

\* one turn of the loop, lines 35-50; two quotes in a row inside quotes are
\* one quote character
ParseStep(text, s) ==
  LET c == text[s.i]
      doubled == s.i + 1 <= Len(text) /\ text[s.i + 1] = Quote
  IN
    CASE s.q /\ c = Quote /\ doubled ->
           [s EXCEPT !.i = @ + 2, !.cell = Append(@, Quote)]
      [] s.q /\ c = Quote /\ ~doubled -> [s EXCEPT !.i = @ + 1, !.q = FALSE]
      [] s.q /\ c # Quote -> [s EXCEPT !.i = @ + 1, !.cell = Append(@, c)]
      [] ~s.q /\ c = Quote -> [s EXCEPT !.i = @ + 1, !.q = TRUE]
      [] ~s.q /\ c = Comma ->
           [s EXCEPT !.i = @ + 1, !.cur = Append(@, s.cell), !.cell = <<>>]
      [] ~s.q /\ c = Newline ->
           [s EXCEPT !.i = @ + 1, !.rows = Append(@, Append(s.cur, s.cell)),
                     !.cur = <<>>, !.cell = <<>>]
      [] ~s.q /\ c = Return -> [s EXCEPT !.i = @ + 1]
      [] OTHER -> [s EXCEPT !.i = @ + 1, !.cell = Append(@, c)]

\* the loop, and line 53 after it: the last cell and row are pushed when the
\* cell or the row holds something
RECURSIVE ParseFrom(_, _)
ParseFrom(text, s) ==
  IF s.i > Len(text)
  THEN (IF s.cell # <<>> \/ s.cur # <<>>
        THEN Append(s.rows, Append(s.cur, s.cell)) ELSE s.rows)
  ELSE ParseFrom(text, ParseStep(text, s))

\* parseCSV(text)
ParseCSV(text) == ParseFrom(text, ParseStart)

\* the field values written: empty, ordinary, a comma, a quote, a line break
FieldValues == { <<>>, <<"a">>, <<Comma>>, <<Quote>>, <<Newline, "b">> }
MaxColumns == 2
MaxRows == 2

\* tables of one to MaxRows rows of one to MaxColumns fields each
Tables ==
  LET RowsOf == SeqsUpTo(FieldValues, MaxColumns) \ {<<>>}
  IN SeqsUpTo(RowsOf, MaxRows) \ {<<>>}

\* the line breaks a writer puts after a row
LineBreaks == { <<Newline>>, <<Return, Newline>> }

\* a value with each double quote doubled
RECURSIVE DoubleQuotes(_)
DoubleQuotes(v) ==
  IF v = <<>> THEN <<>>
  ELSE (IF Head(v) = Quote THEN <<Quote, Quote>> ELSE <<Head(v)>>) \o DoubleQuotes(Tail(v))

\* a value written as a quoted field
WriteField(v) == <<Quote>> \o DoubleQuotes(v) \o <<Quote>>

RECURSIVE WriteRow(_)
WriteRow(r) ==
  IF Len(r) = 1 THEN WriteField(r[1])
  ELSE WriteField(Head(r)) \o <<Comma>> \o WriteRow(Tail(r))

\* the rows written one after the other, a line break between two rows and,
\* if the writer ends the text with one, after the last
RECURSIVE WriteCSV(_, _, _)
WriteCSV(table, eol, ended) ==
  IF Len(table) = 1 THEN WriteRow(table[1]) \o (IF ended THEN eol ELSE <<>>)
  ELSE WriteRow(Head(table)) \o eol \o WriteCSV(Tail(table), eol, ended)

CsvIdle == [pc |-> "idle", table |-> <<>>, ended |-> FALSE, text |-> <<>>,
            rows |-> <<>>]

\* a table is written and its text handed to parseCSV
CsvWrite ==
  /\ csv.pc = "idle"
  /\ \E table \in Tables, eol \in LineBreaks, ended \in BOOLEAN :
       csv' = [CsvIdle EXCEPT !.pc = "written", !.table = table, !.ended = ended,
                              !.text = WriteCSV(table, eol, ended)]
  /\ UNCHANGED <<storeVars, procVars, rest, find, ups, dir, validate>>

\* parseCSV(text) returns
CsvParse ==
  /\ csv.pc = "written"
  /\ csv' = [csv EXCEPT !.pc = "parsed", !.rows = ParseCSV(csv.text)]
  /\ UNCHANGED <<storeVars, procVars, rest, find, ups, dir, validate>>

------------------------------------------------------------------------------
(* lib/site-directory.ts: header resolution and the map *)

SiteIdAliases == << <<"s", "i", "t", "e", "i", "d">>, <<"s", "i", "t", "e", "_", "i", "d">>, <<"i", "d">> >>
AccountNameAliases == << <<"s", "i", "t", "e", "l", "i", "s", "t">>, <<"a", "c", "c", "o", "u", "n", "t", "n", "a", "m", "e">>, <<"a", "c", "c", "o", "u", "n", "t", "_", "n", "a", "m", "e">>, <<"n", "a", "m", "e">> >>
AccountIdAliases == << <<"a", "c", "c", "o", "u", "n", "t", "i", "d">>, <<"a", "c", "c", "o", "u", "n", "t", "_", "i", "d">> >>

\* Array.prototype.indexOf, positions counted from 1 and 0 for "not there"
IndexOf(s, x) ==
  IF \E i \in 1..Len(s) : s[i] = x
  THEN CHOOSE i \in 1..Len(s) : s[i] = x /\ \A j \in 1..(i - 1) : s[j] # x
  ELSE 0

RECURSIVE ResolveFrom(_, _, _)
ResolveFrom(lc, names, k) ==
  IF k > Len(names) THEN 0
  ELSE IF IndexOf(lc, ToLower(names[k])) # 0 THEN IndexOf(lc, ToLower(names[k]))
  ELSE ResolveFrom(lc, names, k + 1)

\* resolveHeaderIndex(headers, names): the first alias, in the order given,
\* that some header equals once trimmed and lower-cased
ResolveHeaderIndex(headers, names) ==
  ResolveFrom([i \in 1..Len(headers) |-> ToLower(Trim(headers[i]))], names, 1)

\* (r[idx] ?? '')
CellAt(r, idx) == IF idx \in 1..Len(r) THEN r[idx] ELSE <<>>

\* {} as DirMap; in an entry the empty string stands for undefined
EmptyMap == [k \in {} |-> [accountName |-> <<>>, accountId |-> <<>>]]

\* the loop of rowsToMap over the first n body rows; a later row replaces an
\* earlier one of the same identifier
RECURSIVE MapOfRows(_, _, _, _, _)
MapOfRows(body, n, siteIdIdx, accountNameIdx, accountIdIdx) ==
  IF n = 0 THEN EmptyMap
  ELSE LET m == MapOfRows(body, n - 1, siteIdIdx, accountNameIdx, accountIdIdx)
           rawSiteId == Trim(CellAt(body[n], siteIdIdx))
           entry == [accountName |-> Trim(CellAt(body[n], accountNameIdx)),
                     accountId |-> Trim(CellAt(body[n], accountIdIdx))]
       IN IF rawSiteId = <<>> THEN m
          ELSE [k \in DOMAIN m \cup {rawSiteId} |-> IF k = rawSiteId THEN entry ELSE m[k]]

Built(map) == [ok |-> TRUE, headers |-> <<>>, map |-> map]
SchemaError(headers) == [ok |-> FALSE, headers |-> headers, map |-> EmptyMap]

\* a build that leaves out the last body row
RowsToMapShort(rows) ==
  IF rows = <<>> THEN Built(EmptyMap)
  ELSE LET headers == [i \in 1..Len(rows[1]) |-> Trim(rows[1][i])]
           siteIdIdx == ResolveHeaderIndex(headers, SiteIdAliases)
       IN IF siteIdIdx = 0 THEN SchemaError(headers)
          ELSE Built(MapOfRows(Tail(rows), Max(Len(rows) - 2, 0), siteIdIdx,
                               ResolveHeaderIndex(headers, AccountNameAliases),
                               ResolveHeaderIndex(headers, AccountIdAliases)))

\* rowsToMap(rows): the map, or the schema error with the headers found
RowsToMap(rows) ==
  IF rows = <<>> THEN Built(EmptyMap)
  ELSE LET headers == [i \in 1..Len(rows[1]) |-> Trim(rows[1][i])]
           siteIdIdx == ResolveHeaderIndex(headers, SiteIdAliases)
       IN IF siteIdIdx = 0 THEN SchemaError(headers)
          ELSE Built(MapOfRows(Tail(rows), Len(rows) - 1, siteIdIdx,
                               ResolveHeaderIndex(headers, AccountNameAliases),
                               ResolveHeaderIndex(headers, AccountIdAliases)))

------------------------------------------------------------------------------
(* lib/site-directory.ts: configuration, cache and getDirectoryMap *)

\* a JavaScript number: an integer, or NaN
Num(n) == [nan |-> FALSE, n |-> n]
NaN == [nan |-> TRUE, n |-> 0]

\* Math.max(a, b): NaN as soon as one argument is
MathMax(a, b) == IF a.nan \/ b.nan THEN NaN ELSE Num(Max(a.n, b.n))
\* a * b and a < b on numbers: every comparison with NaN is false
Times(a, b) == IF a.nan \/ b.nan THEN NaN ELSE Num(a.n * b.n)
Less(a, b) == ~a.nan /\ ~b.nan /\ a.n < b.n
LessOrEqual(a, b) == ~a.nan /\ ~b.nan /\ a.n <= b.n

DigitValue(c) ==
  CASE c = "0" -> 0 [] c = "1" -> 1 [] c = "2" -> 2 [] c = "3" -> 3 [] c = "4" -> 4
    [] c = "5" -> 5 [] c = "6" -> 6 [] c = "7" -> 7 [] c = "8" -> 8 [] OTHER -> 9

RECURSIVE DecimalValue(_)
DecimalValue(s) ==
  IF s = <<>> THEN 0
  ELSE DecimalValue(SubSeq(s, 1, Len(s) - 1)) * 10 + DigitValue(s[Len(s)])

\* Number(s) of a string: blanks around are dropped, the empty string is 0, a
\* signed decimal integer is its value, any other text taken here is NaN
NumberOf(s) ==
  LET t == Trim(s) IN
    IF t = <<>> THEN Num(0)
    ELSE IF AllDigits(t) THEN Num(DecimalValue(t))
    ELSE IF Head(t) = "-" /\ Tail(t) # <<>> /\ AllDigits(Tail(t))
      THEN Num(0 - DecimalValue(Tail(t)))
    ELSE IF Head(t) = "+" /\ Tail(t) # <<>> /\ AllDigits(Tail(t))
      THEN Num(DecimalValue(Tail(t)))
    ELSE NaN

\* an environment variable: unset, or set to a text
Unset == [set |-> FALSE, text |-> <<>>]
SetTo(t) == [set |-> TRUE, text |-> t]

MinTtlSeconds == 30
DefaultTtlSeconds == 300
MsPerSecond == 1000

\* const TTL = Math.max(30, Number(process.env.CACHE_TTL_SECONDS ?? 300))
Ttl(env) ==
  MathMax(Num(MinTtlSeconds),
          IF env.set THEN NumberOf(env.text) ELSE Num(DefaultTtlSeconds))

\* values of CACHE_TTL_SECONDS: unset, empty, zero, negative, below the floor,
\* the floor, not a number
TtlEnvs == { Unset, SetTo(<<>>), SetTo(<<"0">>), SetTo(<<"-", "5">>),
            SetTo(<<"1", "0">>), SetTo(<<" ", "3", "0">>), SetTo(<<"a", "b", "c">>) }

\* values of SHEET_CSV_URL
UrlEnvs == { Unset, SetTo(<<>>), SetTo(<<"u">>) }

UseStaticNever(url) == FALSE

\* if (!CSV_URL)
UseStatic(url) == ~url.set \/ url.text = <<>>

\* the texts the sheet may serve
SheetFull ==
  <<"s", "i", "t", "e", "i", "d", Comma, "s", "i", "t", "e", "l", "i", "s",
    "t", Comma, "a", "c", "c", "o", "u", "n", "t", "i", "d", Newline, "7",
    Comma, "A", "c", "m", "e", Comma, "A", "1", Newline, "9", Comma, "B",
    "o", "l", "t", Comma, Newline>>
SheetLoose ==
  <<" ", "I", "D", " ", Comma, "N", "a", "m", "e", Return, Newline, " ", "7",
    " ", Comma, Quote, "B", Comma, " ", Quote, Quote, "x", Quote, Quote,
    Quote, Return, Newline, Comma, "l", "o", "s", "t", Return, Newline, "7",
    Comma, "A", "c", "m", "e", Return, Newline, "9">>
SheetNoIdColumn ==
  <<"s", "i", "t", "e", Comma, "n", "a", "m", "e", Newline, "7", Comma, "A",
    "c", "m", "e", Newline>>
SheetEmpty == <<>>
\* what a fetch may be answered with
Sheets == { SheetLoose, SheetNoIdColumn, SheetEmpty }

\* g.__SITE_DIR_CACHE__: null, or { at, map }
NoCache == [full |-> FALSE, at |-> 0, map |-> EmptyMap]
CacheOf(at, map) == [full |-> TRUE, at |-> at, map |-> map]

CacheHitInclusive(cache, now, ttl) ==
  cache.full /\ LessOrEqual(Num(now - cache.at), Times(ttl, Num(MsPerSecond)))

\* g.__SITE_DIR_CACHE__ && now - g.__SITE_DIR_CACHE__.at < TTL * 1000
CacheHit(cache, now, ttl) ==
  cache.full /\ Less(Num(now - cache.at), Times(ttl, Num(MsPerSecond)))

CacheAfterClearing(cache, now, built) ==
  IF built.ok THEN CacheOf(now, built.map) ELSE NoCache

\* the cache once rowsToMap has answered: replaced at line 115, which a throw
\* at line 114 never reaches
CacheAfter(cache, now, built) ==
  IF built.ok THEN CacheOf(now, built.map) ELSE cache

DirCallers == {1, 2}
MaxTicks == 2
\* milliseconds the clock may move between two steps
Deltas == {1, 29999, 300000}

NoDirError == [kind |-> "", status |-> 0, headers |-> <<>>]
DirIdle == [pc |-> "idle", now |-> 0, text |-> <<>>, ret |-> EmptyMap,
            err |-> NoDirError]

\* new Error(`Failed to fetch SHEET_CSV_URL (${r.status})`)
FetchError(status) == [kind |-> "fetch", status |-> status, headers |-> <<>>]
\* new Error(`Sheet CSV is missing a "siteid" column (or alias). Found headers: ...`)
MissingColumn(headers) == [kind |-> "schema", status |-> 0, headers |-> headers]

\* statuses of a response whose ok is false
FailedStatuses == {404, 500}

\* one caller's state replaced; the locals of a call end with it
DirSet(c, callState) == [dir.call EXCEPT ![c] = callState]

\* Date.now() moves on
DirTick ==
  /\ dir.ticks < MaxTicks
  /\ \E d \in Deltas :
       dir' = [dir EXCEPT !.clock = @ + d, !.ticks = @ + 1]
  /\ UNCHANGED <<storeVars, procVars, rest, find, ups, csv, validate>>

\* getDirectoryMap() is called and runs up to its first await: the import of
\* the static mapping, or the fetch; a cache hit returns at once
DirCall(c) ==
  /\ dir.call[c].pc \in {"idle", "returned", "threw"}
  /\ IF UseStatic(dir.url)
     THEN dir' = [dir EXCEPT !.call = DirSet(c, [DirIdle EXCEPT !.pc = "importing"])]
     ELSE LET now == dir.clock IN
       IF CacheHit(dir.cache, now, dir.ttl)
       THEN dir' = [dir EXCEPT !.call =
                      DirSet(c, [DirIdle EXCEPT !.pc = "returned",
                                                !.ret = dir.cache.map])]
       ELSE dir' = [dir EXCEPT !.call =
                      DirSet(c, [DirIdle EXCEPT !.pc = "fetching", !.now = now])]
  /\ UNCHANGED <<storeVars, procVars, rest, find, ups, csv, validate>>

\* const local = await import('../data/site-directory.json'); return it
DirImport(c) ==
  /\ dir.call[c].pc = "importing"
  /\ dir' = [dir EXCEPT !.call =
               DirSet(c, [DirIdle EXCEPT !.pc = "returned", !.ret = Directory])]
  /\ UNCHANGED <<storeVars, procVars, rest, find, ups, csv, validate>>

\* the fetch answers with a response that is not ok: line 110 throws
DirFetchFailed(c) ==
  /\ dir.call[c].pc = "fetching"
  /\ \E s \in FailedStatuses :
       dir' = [dir EXCEPT !.call =
                 DirSet(c, [DirIdle EXCEPT !.pc = "threw", !.err = FetchError(s)])]
  /\ UNCHANGED <<storeVars, procVars, rest, find, ups, csv, validate>>

\* the fetch answers ok; the body is awaited
DirFetched(c) ==
  /\ dir.call[c].pc = "fetching"
  /\ \E t \in Sheets :
       dir' = [dir EXCEPT !.call =
                 DirSet(c, [dir.call[c] EXCEPT !.pc = "reading", !.text = t])]
  /\ UNCHANGED <<storeVars, procVars, rest, find, ups, csv, validate>>

\* the body has arrived: parseCSV, rowsToMap, the cache assignment and the
\* return, or the throw of rowsToMap
DirBuild(c) ==
  /\ dir.call[c].pc = "reading"
  /\ LET me == dir.call[c]
         built == RowsToMap(ParseCSV(me.text))
     IN dir' = [dir EXCEPT
                  !.cache = CacheAfter(dir.cache, me.now, built),
                  !.call = DirSet(c,
                    IF built.ok
                    THEN [DirIdle EXCEPT !.pc = "returned", !.ret = built.map]
                    ELSE [DirIdle EXCEPT !.pc = "threw",
                                         !.err = MissingColumn(built.headers)])]
  /\ UNCHANGED <<storeVars, procVars, rest, find, ups, csv, validate>>

\* the process starts: the environment is read, TTL computed, and the cache is
\* null unless an earlier evaluation of the module left one on globalThis
DirStart(url, env, cache) ==
  [url |-> url, ttlEnv |-> env, ttl |-> Ttl(env), cache |-> cache,
   clock |-> 0, ticks |-> 0, call |-> [c \in DirCallers |-> DirIdle]]

\* the entry an earlier evaluation of the module may have left
PriorCache == CacheOf(0, RowsToMap(ParseCSV(SheetFull)).map)

InitDir ==
  \E url \in UrlEnvs, env \in TtlEnvs, cache \in {NoCache, PriorCache} :
    /\ UseStatic(url) => env = Unset
    /\ dir = DirStart(url, env, cache)

\* the directory module loaded with nothing configured and no call made
DirUnused == dir = DirStart(Unset, Unset, NoCache)

------------------------------------------------------------------------------
(* pages/api/validate-siteid.ts: the validate handler *)

\* the revisions: the directory lookup, the identifier set behind a
\* non-empty test, the bare identifier set
ValidateRevisions == {"directory", "guarded_set", "set"}
Methods == {"GET", "POST", "OPTIONS"}

\* req.query.siteId: absent, or a text
QuerySiteIds ==
  { Unset, SetTo(<<>>), SetTo(<<" ">>), SetTo(<<"9">>), SetTo(<<" ", "9", " ">>),
    SetTo(<<"7">>), SetTo(ConstructorKey), SetTo(<<" ">> \o ConstructorKey) }

\* no response yet; in a body the empty string stands for null
NoAnswer == [status |-> 0, json |-> FALSE, valid |-> FALSE, withMeta |-> FALSE,
             accountName |-> <<>>, accountId |-> <<>>]
\* res.status(n).end()
EndWith(n) == [NoAnswer EXCEPT !.status = n]
\* res.status(200).json({ valid })
JsonValid(valid) == [NoAnswer EXCEPT !.status = 200, !.json = TRUE, !.valid = valid]
\* res.status(200).json({ valid, accountName, accountId })
JsonEntry(m) ==
  [status |-> 200, json |-> TRUE, valid |-> m.found, withMeta |-> TRUE,
   accountName |-> IF m.found THEN m.accountName ELSE <<>>,
   accountId |-> IF m.found THEN m.accountId ELSE <<>>]

\* String(req.query.siteId ?? '').trim()
QueryText(raw) == Trim(IF raw.set THEN raw.text ELSE <<>>)

\* the handler of each revision, from the request to the response
ValidateHandler(revision, method, raw) ==
  LET siteId == QueryText(raw) IN
    IF revision # "set" /\ method = "OPTIONS" THEN EndWith(204)
    ELSE IF method # "GET" THEN EndWith(405)
    ELSE IF revision = "directory" THEN JsonEntry(DirLookup(siteId))
    ELSE IF revision = "guarded_set" THEN JsonValid(siteId # <<>> /\ siteId \in IdSet)
    ELSE JsonValid(siteId \in IdSet)

ValidateIdle == [pc |-> "idle", revision |-> "", method |-> "", raw |-> Unset,
                 answer |-> NoAnswer]

\* a request reaches the validate handler
ValidateReceive ==
  /\ validate.pc = "idle"
  /\ \E v \in ValidateRevisions, m \in Methods, raw \in QuerySiteIds :
       validate' = [ValidateIdle EXCEPT !.pc = "received", !.revision = v,
                                        !.method = m, !.raw = raw]
  /\ UNCHANGED <<storeVars, procVars, rest, find, ups, dir, csv>>

\* the handler answers
ValidateRespond ==
  /\ validate.pc = "received"
  /\ validate' = [validate EXCEPT
                    !.pc = "done",
                    !.answer = ValidateHandler(validate.revision, validate.method,
                                               validate.raw)]
  /\ UNCHANGED <<storeVars, procVars, rest, find, ups, dir, csv>>

------------------------------------------------------------------------------
(* Initial states *)

\* the store holds one customer registered earlier, tagged "vip"
InitStore ==
  /\ customers = << [id |-> 1, email |-> <<"A">>, tags |-> <<Vip>>] >>
  /\ nextId = 2
  /\ metafields = <<>>
  /\ nextMfId = 1

InitProcs ==
  /\ pc = [p \in Procs |-> "idle"]
  /\ req = [p \in Procs |-> NoReq]
  /\ loc = [p \in Procs |-> NoLoc]
  /\ resp = [p \in Procs |-> NoResp]
  /\ log = [p \in Procs |-> <<>>]
  /\ nreq = 0

InitRest == rest = RestIdle
InitFind == find = FindIdle
InitUps == ups = UpsIdle
CsvUnused == csv = CsvIdle
ValidateUnused == validate = ValidateIdle
InitLib == DirUnused /\ CsvUnused /\ ValidateUnused

Init == InitStore /\ InitProcs /\ InitRest /\ InitFind /\ InitUps /\ InitLib

\* the tags strings the earlier customer may carry, split at the commas
StoredTagLists == { <<>>, <<Vip>>, <<Approved>>, <<Vip, <<" ">> \o Approved>>,
                    <<Vip, <<" ">>, <<" ">> \o Vip>> }

\* the store of the one-request-at-a-time runs: the earlier customer with any
\* of the tags strings
InitStoreSerial ==
  /\ \E t \in StoredTagLists :
       customers = << [id |-> 1, email |-> <<"A">>, tags |-> t] >>
  /\ nextId = 2
  /\ metafields = <<>>
  /\ nextMfId = 1

InitSerial ==
  InitStoreSerial /\ InitProcs /\ InitRest /\ InitFind /\ InitUps /\ InitLib

------------------------------------------------------------------------------
(* Specifications *)

\* concurrent register requests against the remote store
Next ==
  \E p \in Procs :
    \/ Receive(p)
    \/ Lookup(p)
    \/ Create(p)
    \/ Recheck(p)
    \/ StorefrontCreate(p)
    \/ PutName(p)
    \/ PutPhone(p)
    \/ Confirm(p)
    \/ UpdateOnlyGet(p)
    \/ PutTags(p)
    \/ MetafieldList(p)
    \/ MetafieldWrite(p)

Spec == Init /\ [][Next]_vars

\* concurrent callers of getDirectoryMap while the clock moves
InitDirectory ==
  /\ InitStore /\ InitProcs /\ InitRest /\ InitFind /\ InitUps
  /\ InitDir /\ CsvUnused /\ ValidateUnused

NextDir ==
  \/ DirTick
  \/ \E c \in DirCallers :
       \/ DirCall(c)
       \/ DirImport(c)
       \/ DirFetchFailed(c)
       \/ DirFetched(c)
       \/ DirBuild(c)

SpecDir == InitDirectory /\ [][NextDir]_vars

\* parseCSV on written tables
InitCsv ==
  /\ InitStore /\ InitProcs /\ InitRest /\ InitFind /\ InitUps
  /\ DirUnused /\ CsvUnused /\ ValidateUnused

NextCsv == CsvWrite \/ CsvParse

SpecCsv == InitCsv /\ [][NextCsv]_vars

\* requests to the validate handler
InitValidate ==
  /\ InitStore /\ InitProcs /\ InitRest /\ InitFind /\ InitUps
  /\ DirUnused /\ CsvUnused /\ ValidateUnused

NextValidate == ValidateReceive \/ ValidateRespond

SpecValidate == InitValidate /\ [][NextValidate]_vars

\* one adminREST call after another
NextREST == RestCall \/ RestFetch \/ RestRetry \/ RestFinish \/ RestLeave

SpecREST == Init /\ [][NextREST]_vars

\* findCustomerIdByEmailExact on every search response
NextFind == FindCall \/ FindThrow \/ FindReturn

SpecFind == Init /\ [][NextFind]_vars

\* concurrent customer-save requests against the remote store
NextSave ==
  \E p \in Procs :
    \/ SaveReceive(p)
    \/ SaveFind(p)
    \/ SaveUpdate(p)
    \/ SaveMetafields(p)

SpecSave == Init /\ [][NextSave]_vars

\* upsertMetafieldREST called again and again by one caller
NextUpsert == UpsCall \/ UpsList \/ UpsWrite

SpecUpsert == Init /\ [][NextUpsert]_vars

\* register requests handled one at a time, by any revision of the handler
NextSerial ==
  \/ ReceiveFrom(1, SerialRequests)
  \/ Lookup(1)
  \/ Create(1)
  \/ Recheck(1)
  \/ StorefrontCreate(1)
  \/ PutName(1)
  \/ PutPhone(1)
  \/ Confirm(1)
  \/ UpdateOnlyGet(1)
  \/ PutTags(1)
  \/ MetafieldList(1)
  \/ MetafieldWrite(1)

SpecSerial == InitSerial /\ [][NextSerial]_vars

\* phone values a request body may carry
EightDigits == <<"1", "2", "3", "4", "5", "6", "7", "8">>
RawPhones ==
  { <<>>, <<" ", " ">>, <<"a", "b">>, TenDigitPhone,
    <<" ", "(">> \o TenDigitPhone \o <<")", "x">>,
    <<"+">> \o EightDigits,
    EightDigits,
    <<"+">> \o Tail(EightDigits),
    <<"+">> \o EightDigits \o Tail(EightDigits),
    <<"+">> \o EightDigits \o EightDigits,
    <<"1">> \o TenDigitPhone,
    <<"+", "+">> \o EightDigits,
    <<"+", "1", "2", "3", "4", "+", "5", "6", "7", "8">>,
    <<"+", "5", "5", "5", "1", "2", "3", "4", "5", "6", "7">> }

PhoneRequests ==
  {RequestOf("rest", <<"a">>, <<"9">>,
             [update |-> u, pwLen |-> 8, phone |-> ph, titleRole |-> <<>>]) :
     u \in BOOLEAN, ph \in RawPhones}

\* requests to the directory revision with every kind of phone value
NextPhone ==
  \/ ReceiveFrom(1, PhoneRequests)
  \/ Lookup(1)
  \/ Create(1)
  \/ Recheck(1)
  \/ PutName(1)
  \/ PutPhone(1)
  \/ Confirm(1)
  \/ UpdateOnlyGet(1)
  \/ PutTags(1)
  \/ MetafieldList(1)
  \/ MetafieldWrite(1)

SpecPhone == InitSerial /\ [][NextPhone]_vars

\* the handler of slot p resumes after the remote call it awaits
HandlerStep(p) ==
  \/ Lookup(p)
  \/ Create(p)
  \/ Recheck(p)
  \/ StorefrontCreate(p)
  \/ PutName(p)
  \/ PutPhone(p)
  \/ Confirm(p)
  \/ UpdateOnlyGet(p)
  \/ PutTags(p)
  \/ MetafieldList(p)
  \/ MetafieldWrite(p)

\* register requests handled one at a time when every remote call returns:
\* an awaited call that can return does return, and the handler goes on
SpecReturning == InitSerial /\ [][NextSerial]_vars /\ WF_vars(HandlerStep(1))

------------------------------------------------------------------------------
(* Properties *)

Active == {p \in Procs : pc[p] # "idle"}

\* the email the handler compares against, recomputed from the request body
RequestEmail(p) ==
  IF req[p].variant = "storefront" THEN ToLower(req[p].email)
  ELSE Trim(ToLower(req[p].email))

TagWrites == {"put_tags"}
AttributeWrites == {"mf_post", "mf_put", "mf_set"}
CoreWrites == {"create", "sf_create", "put_name", "put_phone", "customer_update"}
Writes == TagWrites \cup AttributeWrites \cup CoreWrites

\* C1: in every reachable state the remote store holds at most one customer
\* record per case-folded email, also when two requests for the same absent
\* email interleave LOOKUP and CREATE (the store accepts every create).
C1_OneCustomerPerEmail ==
  \A i, j \in 1..Len(customers) :
    i # j => ToLower(customers[i].email) # ToLower(customers[j].email)

\* C2: in every reachable state there is at most one attribute per
\* (ownerId, namespace, key), also when two requests for the same owner
\* interleave the list step and the create step of upsertMetafieldREST.
C2_OneAttributePerKey ==
  \A i, j \in 1..Len(metafields) :
    i # j => ~ /\ metafields[i].owner = metafields[j].owner
               /\ metafields[i].namespace = metafields[j].namespace
               /\ metafields[i].key = metafields[j].key

\* C3: when upsertMetafieldREST has run twice in a row with the same arguments,
\* the store after the second run equals the store after the first, holds exactly
\* one attribute for that (owner, namespace, key), with the value given, and the
\* second run issued no create call.
C3_UpsertIdempotent ==
  (ups.pc = "done" /\ ups.prevOk /\ ups.prevArgs = ups.args) =>
    /\ metafields = ups.prevStore
    /\ ~ups.posted
    /\ LET same == {i \in 1..Len(metafields) :
                      /\ metafields[i].owner = ups.args.owner
                      /\ metafields[i].namespace = ups.args.namespace
                      /\ metafields[i].key = ups.args.key}
       IN /\ Cardinality(same) = 1
          /\ \A i \in same : metafields[i].value = ups.args.value

C3_Witness ==
  /\ ups.pc = "done"
  /\ ups.prevOk
  /\ ups.prevArgs = ups.args
  /\ ups.existing # Null
  /\ Len(metafields) = 1

\* C4: findCustomerIdByEmailExact returns an identifier only if it is the
\* identifier of the first candidate returned and that candidate's lower-cased
\* email equals the query; for an empty list, a failed search or a first
\* candidate that is only a near match it returns null.
C4_ExactMatchOnly ==
  find.pc = "done" =>
    LET accept == /\ ~find.thrown
                  /\ find.results # <<>>
                  /\ [i \in 1..Len(find.results[1].email) |->
                        Lower(find.results[1].email[i])] = find.q
    IN /\ find.ret # Null => accept /\ find.ret = find.results[1].id
       /\ ~accept => find.ret = Null

C4_Witness ==
  /\ find.pc = "done"
  /\ find.q = <<"a">>
  /\ Len(find.results) = 2
  /\ find.results[1].email = <<"A">>
  /\ find.results[2].email = <<"a", "b">>
  /\ find.ret = find.results[1].id

\* C5: if a CONFIRM read (GET /customers/{id}.json) returns an email whose
\* lower-cased form differs from the request email, the handler responds
\* ok:false with the ID/email mismatch error and issues no write after it.
C5_MismatchStopsWrites ==
  \A p \in Active :
    \A i \in 1..Len(log[p]) :
      (/\ log[p][i].op = "get"
       /\ log[p][i].key = "ok"
       /\ ToLower(log[p][i].val) # RequestEmail(p))
      => /\ \A j \in (i + 1)..Len(log[p]) : log[p][j].op \notin Writes
         /\ resp[p].sent
         /\ ~resp[p].ok
         /\ resp[p].error = "ID/email mismatch"

\* C6: no tag write and no attribute write is issued for an identifier before
\* a CONFIRM read of that identifier has returned an email equal to the
\* request email, on the update-only path as well.
C6_ConfirmBeforeWrite ==
  \A p \in Active :
    \A j \in 1..Len(log[p]) :
      log[p][j].op \in TagWrites \cup AttributeWrites =>
        \E i \in 1..(j - 1) :
          /\ log[p][i].op = "get"
          /\ log[p][i].key = "ok"
          /\ log[p][i].id = log[p][j].id
          /\ ToLower(log[p][i].val) = RequestEmail(p)

SiteMissing(p) == Trim(req[p].siteId) = <<>>
SiteAbsent(p) == Trim(req[p].siteId) \notin SiteIds

\* C7: when the trimmed siteId of a registration request is missing or is no
\* entry of the directory/identifier set, the handler answers ok:false and
\* makes no remote call at all, not even the identity lookup; when the request
\* carries an email and the trimmed siteId is non-empty, the answer has field
\* 'siteId' and error 'Invalid Site ID'.
C7_SiteGate ==
  \A p \in Active :
    SiteAbsent(p) =>
      /\ pc[p] = "done"
      /\ resp[p].sent
      /\ ~resp[p].ok
      /\ log[p] = <<>>
      /\ (req[p].email # <<>> /\ ~SiteMissing(p)) =>
           resp[p].field = "siteId" /\ resp[p].error = "Invalid Site ID"

\* C8: every site-identifier attribute value (custom.custom_site_id) written to
\* the remote store by a handler is a siteId found in the directory/identifier
\* set earlier in the same request.
C8_SiteIdWritesValidated ==
  \A p \in Active :
    \A j \in 1..Len(log[p]) :
      (log[p][j].op \in AttributeWrites /\ log[p][j].key = "custom_site_id")
      => log[p][j].val \in SiteIds

\* C9: a response of adminREST is followed by another fetch only if its status
\* is 429 or >= 500; any other status ends the call on that response, with no
\* backoff sleep and no further fetch after it.
C9_RetryBoundary ==
  \A i \in 1..Len(rest.hist) :
    ~(rest.hist[i] = 429 \/ rest.hist[i] >= 500) =>
      /\ i = Len(rest.hist)
      /\ rest.pc \in {"got", "returned", "threw"}
      /\ rest.fetches = i
      /\ Len(rest.sleeps) = i - 1

C9_Witness ==
  /\ rest.pc = "threw"
  /\ rest.hist = <<429, 404>>
  /\ rest.sleeps = <<300>>

\* C10: one adminREST call performs at most 1 + max(0, tries) fetches (2 when
\* tries is not given), its attempt counter never exceeds tries, and a further
\* fetch is pending only while that budget is not used up, so the call ends
\* even if every response is 429 or 5xx.
C10_BoundedRetry ==
  LET extra == IF rest.tries.given
               THEN (IF rest.tries.n > 0 THEN rest.tries.n ELSE 0)
               ELSE 1
  IN /\ rest.fetches <= 1 + extra
     /\ rest.attempt <= extra
     /\ Len(rest.hist) = rest.fetches
     /\ rest.pc = "fetch" => rest.fetches < 1 + extra

C10_Witness ==
  /\ rest.pc = "threw"
  /\ rest.tries = [given |-> TRUE, n |-> 2]
  /\ rest.hist = <<429, 500, 503>>
  /\ rest.attempt = 2

\* the calls of slot p with operation op
CallsOf(p, op) == {i \in 1..Len(log[p]) : log[p][i].op = op}

\* the tags of a stored record as the store sees them: trimmed, blanks dropped
StoredTags(pieces) == {Trim(pieces[i]) : i \in 1..Len(pieces)} \ {<<>>}

\* how often tag t occurs among the pieces
TagCount(pieces, t) == Cardinality({i \in 1..Len(pieces) : Trim(pieces[i]) = t})

\* the tags pieces of the stored record with identifier id (no pieces when absent)
TagsOfRecord(id) ==
  LET hits == {i \in 1..Len(customers) : customers[i].id = id}
  IN IF hits = {} THEN <<>> ELSE customers[CHOOSE i \in hits : TRUE].tags

\* C11: when the create response carries no identifier, the handler performs
\* exactly one more exact lookup by email; if it yields an identifier the
\* request goes on with it as action 'created'; if it yields none the request
\* fails with 'Customer create returned no id' and issues no further remote
\* call; the create call is never repeated.
C11_CreateRecovery ==
  /\ [](\A p \in Active :
          /\ Cardinality(CallsOf(p, "create")) <= 1
          /\ Cardinality(CallsOf(p, "search")) <= 2
          /\ (resp[p].sent /\ resp[p].error = "Customer create returned no id") =>
               /\ pc[p] = "done"
               /\ Len(log[p]) = 3
               /\ log[p][2].op = "create"
               /\ log[p][3].op = "search")
  /\ [][\A p \in Procs :
          (pc[p] = "recheck" /\ pc'[p] # "recheck") =>
            /\ log'[p] = Append(log[p], SearchCall(loc'[p].customerId, loc[p].emailLower))
            /\ \/ /\ pc'[p] = "done"
                  /\ resp'[p] = JsonErr("Customer create returned no id", "")
               \/ /\ pc'[p] = "confirm"
                  /\ ~resp'[p].sent
                  /\ loc'[p].action = "created"
                  /\ loc'[p].customerId # Null
                  /\ \E i \in 1..Len(customers) :
                       /\ customers[i].id = loc'[p].customerId
                       /\ ToLower(customers[i].email) = loc[p].emailLower]_vars

C11_Witness ==
  /\ pc[1] = "confirm"
  /\ Len(log[1]) = 3
  /\ log[1][2].op = "create"
  /\ log[1][3].op = "search"
  /\ loc[1].action = "created"

\* C12: when LOOKUP finds no record and update-only is not requested, a create
\* call is issued only if the request carries a password of length >= 8; with
\* a missing or shorter password the request fails with field 'password' and
\* issues no create call and no other mutation.
C12_PasswordBeforeCreate ==
  \A p \in Active :
    /\ (CallsOf(p, "create") \cup CallsOf(p, "sf_create") # {}) =>
         req[p].pwLen >= MinPasswordLen
    /\ (/\ pc[p] = "done"
        /\ ~req[p].update
        /\ req[p].pwLen < MinPasswordLen
        /\ CallsOf(p, "search") # {}
        /\ CallsOf(p, "put_name") = {}) =>
         /\ resp[p].field = "password"
         /\ \A i \in 1..Len(log[p]) : log[p][i].op \notin Writes

\* C13: when update === true no create call is issued; if LOOKUP finds no
\* record the request ends with ok:false 'No existing account for that email',
\* field 'email', and no remote mutation has been issued.
C13_UpdateOnlyNeverCreates ==
  \A p \in Active :
    req[p].update =>
      /\ CallsOf(p, "create") \cup CallsOf(p, "sf_create") = {}
      /\ (pc[p] = "done" /\ Len(log[p]) = 1) =>
           resp[p] = JsonErr("No existing account for that email", "email")
      /\ (resp[p].sent /\ resp[p].error = "No existing account for that email") =>
           \A i \in 1..Len(log[p]) : log[p][i].op \notin Writes

C13_Witness ==
  /\ pc[1] = "done"
  /\ req[1].update
  /\ resp[1] = JsonErr("No existing account for that email", "email")
  /\ Len(log[1]) = 1
  /\ log[1][1].op = "search"

\* C14: when LOOKUP found an existing record (the name update was sent), every
\* core-field write of the request carries only the identifier, first name,
\* last name and normalized phone; no call of the request carries a password
\* or an email field, and the request is not refused for its password.
C14_UpdateFrame ==
  \A p \in Active :
    CallsOf(p, "put_name") # {} =>
      /\ \A i \in 1..Len(log[p]) :
           /\ log[p][i].op \in CoreWrites =>
                log[p][i].fields \subseteq {"id", "first_name", "last_name", "phone"}
           /\ log[p][i].fields \cap
                {"password", "password_confirmation", "email"} = {}
           /\ log[p][i].op = "put_phone" =>
                log[p][i].val = NormalizePhone(req[p].phone)
      /\ resp[p].field # "password"

C14_Witness ==
  /\ pc[1] = "done"
  /\ resp[1].ok
  /\ resp[1].action = "updated"
  /\ req[1].pwLen = 7
  /\ CallsOf(1, "put_name") # {}

\* C15: whenever a tag write changes a record's tags, the record's tag set
\* afterwards is its tag set before plus 'approved': no tag is removed, none is
\* duplicated, nothing else is added.
C15_TagMergeIsUnion ==
  [][\A i \in 1..Len(customers) :
       customers'[i].tags # customers[i].tags =>
         /\ StoredTags(customers'[i].tags) =
              StoredTags(customers[i].tags) \cup {Approved}
         /\ \A t \in StoredTags(customers'[i].tags) :
              TagCount(customers'[i].tags, t)
                <= Max(1, TagCount(customers[i].tags, t))]_vars

C15_Witness ==
  /\ Len(log[1]) > 0
  /\ log[1][Len(log[1])].op = "put_tags"
  /\ pc[1] = "mf_list"
  /\ StoredTags(TagsOfRecord(loc[1].customerId)) = {Vip, Approved}

\* C16: a tag write is issued only if the confirmed record's tag set does not
\* already contain 'approved'; when it does, no tag write is sent.
C16_TagWriteOnlyWhenNeeded ==
  \A p \in Active :
    pc[p] = "put_tags" => Approved \notin StoredTags(TagsOfRecord(loc[p].customerId))

\* C17: whenever a registration request ends with ok:true, the tag read and,
\* if needed, the tag write have succeeded, so the record's tags contain
\* 'approved' when the response is sent (no other writer).
C17_ApprovedOnSuccess ==
  \A p \in Active :
    (pc[p] = "done" /\ resp[p].sent /\ resp[p].ok) =>
      Approved \in StoredTags(TagsOfRecord(resp[p].customerId))

\* C18: a register response carries a password only if it is ok:true with
\* action 'created'; no 'updated' response and no ok:false response does.
C18_PasswordOnlyWhenCreated ==
  \A p \in Active :
    (resp[p].sent /\ resp[p].password # 0) =>
      resp[p].ok /\ resp[p].action = "created"

\* C19: when a remote call of a step ends in an error, the request ends with
\* ok:false and no remote call of a later step is issued.
C19_ErrorAborts ==
  \A p \in Active :
    \A i \in 1..Len(log[p]) :
      (log[p][i].op = "get" /\ log[p][i].key # "ok") =>
        /\ i = Len(log[p])
        /\ pc[p] = "done" => ~resp[p].ok

\* C20: every outcome of a POST to the register handler that is not a success
\* is a JSON body with ok:false and an error string, sent with the default 200
\* status; the handler always ends with a response.
C20_StructuredFailure ==
  \A p \in Active :
    /\ pc[p] = "done" => resp[p].sent
    /\ resp[p].sent => resp[p].status = 200
    /\ (resp[p].sent /\ ~resp[p].ok) => resp[p].error # ""

C20_Witness ==
  /\ pc[1] = "done"
  /\ resp[1].sent
  /\ ~resp[1].ok
  /\ resp[1].error = "exception"
  /\ Len(log[1]) > 1

\* C30: adminREST throws for every final non-2xx response (a non-retryable
\* status on any attempt, or a 429/5xx when no attempt is left); the error
\* carries the status of that last response and at most the first 400
\* characters of its body; it never returns normally for a non-2xx response.
C30_FinalFailureShape ==
  rest.pc \in {"returned", "threw"} =>
    LET last == rest.hist[Len(rest.hist)]
        twoxx == last >= 200 /\ last <= 299
    IN /\ rest.pc = "returned" <=> twoxx
       /\ rest.pc = "threw" =>
            /\ rest.result = "error"
            /\ rest.err.status = last
            /\ rest.err.snippet <= 400
            /\ rest.err.snippet = (IF rest.bodyLen <= 400 THEN rest.bodyLen ELSE 400)
       /\ rest.pc = "returned" => rest.err = NoError /\ rest.result # "error"

C30_Witness ==
  /\ rest.pc = "threw"
  /\ rest.hist = <<429, 503>>
  /\ rest.bodyLen = 401
  /\ rest.err = [status |-> 503, snippet |-> 400]

------------------------------------------------------------------------------
\* where the handler stands after the lookup, for each branch
BranchPc(branch) ==
  CASE branch \in {"no_account", "password"} -> "done"
    [] branch \in {"update_only", "update"} -> "put_name"
    [] branch = "create" -> "create"
    [] OTHER -> "sf_create"

\* the record the search would name if it answered
Existing(p) == FindExact(SearchResponse(customers, loc[p].emailLower), loc[p].emailLower)

\* C21 Lookup failure absorbed: the first lookup of a request issues the one
\* search call and never ends the request with the handler's exception answer;
\* the request goes on either with the record the search names or, the search
\* having failed, exactly as it does when no record exists: a request that is
\* not update-only goes to the create branch (password check, then create),
\* with no customer identifier and no action chosen.
C21_LookupFailureAbsorbed ==
  [][\A p \in Procs :
       (pc[p] = "lookup" /\ pc'[p] # "lookup") =>
         /\ log'[p] = Append(log[p], SearchCall(loc'[p].customerId, loc[p].emailLower))
         /\ resp'[p].error # "exception"
         /\ \/ /\ Existing(p) # Null
               /\ pc'[p] = BranchPc(Branch(req[p], Existing(p)))
               /\ loc'[p].customerId = Existing(p)
            \/ /\ pc'[p] = BranchPc(Branch(req[p], Null))
               /\ loc'[p].customerId = Null
               /\ loc'[p].action = ""
               /\ ~req[p].update =>
                    \/ pc'[p] \in {"create", "sf_create"} /\ ~resp'[p].sent
                    \/ /\ pc'[p] = "done"
                       /\ resp'[p] = JsonErr("Password must be at least 8 characters",
                                             "password")]_vars

\* a request whose email has a record stands at the create call after one
\* search call: the search failed and was taken for "not found"
C21_Witness ==
  /\ pc[1] = "create"
  /\ Len(log[1]) = 1
  /\ log[1][1].op = "search"
  /\ ~req[1].update
  /\ Existing(1) # Null

------------------------------------------------------------------------------
(* The site directory cache *)

\* a source URL is configured
UrlConfigured == dir.url.set /\ dir.url.text # <<>>

\* the step is a call of getDirectoryMap by caller c
Calls(c) ==
  /\ dir.call[c].pc \in {"idle", "returned", "threw"}
  /\ dir'.call[c] # dir.call[c]

\* the cache holds an entry younger than ttlSeconds at the present clock
Younger(ttlSeconds) ==
  dir.cache.full /\ dir.clock - dir.cache.at < ttlSeconds * 1000

\* C22 Cache hit window: with a source URL configured, a call of
\* getDirectoryMap returns the cached map without fetching exactly when a
\* cache entry exists and now - at < TTL (both in milliseconds); when there is
\* no entry, or its age is the TTL or more, the call fetches.
C22_CacheHitWindow ==
  [][\A c \in DirCallers :
       (UrlConfigured /\ Calls(c)) =>
         IF ~dir.ttl.nan /\ Younger(dir.ttl.n)
         THEN /\ dir'.call[c].pc = "returned"
              /\ dir'.call[c].ret = dir.cache.map
              /\ dir'.cache = dir.cache
         ELSE /\ dir'.call[c].pc = "fetching"
              /\ dir'.call[c].now = dir.clock]_vars

\* the entry built at 0 was returned to one caller while younger than the 30
\* seconds, and the call made at age 30000 ms fetches
C22_Witness ==
  /\ UrlConfigured
  /\ dir.ttl = Num(30)
  /\ dir.cache = PriorCache
  /\ dir.call[1].pc = "returned"
  /\ dir.call[1].ret = dir.cache.map
  /\ dir.call[2].pc = "fetching"
  /\ dir.call[2].now = 30000

\* C23 Single-flight refresh: at any time at most one directory fetch is in
\* flight; a caller that arrives while a rebuild is in progress does not start
\* a second fetch.
C23_SingleFlight ==
  Cardinality({c \in DirCallers : dir.call[c].pc \in {"fetching", "reading"}}) <= 1

\* the map holds exactly the identifiers of the body rows of the table, each
\* with the trimmed cells of the last row that carries it
CompleteFor(map, rows) ==
  IF rows = <<>> THEN map = EmptyMap
  ELSE LET siteIdIdx == ResolveHeaderIndex(rows[1], SiteIdAliases)
           accountNameIdx == ResolveHeaderIndex(rows[1], AccountNameAliases)
           accountIdIdx == ResolveHeaderIndex(rows[1], AccountIdAliases)
           IdOf(i) == Trim(CellAt(rows[i], siteIdIdx))
       IN /\ siteIdIdx # 0
          /\ DOMAIN map = {IdOf(i) : i \in 2..Len(rows)} \ {<<>>}
          /\ \A i \in 2..Len(rows) :
               (IdOf(i) # <<>> /\ \A j \in (i + 1)..Len(rows) : IdOf(j) # IdOf(i)) =>
                 /\ map[IdOf(i)].accountName = Trim(CellAt(rows[i], accountNameIdx))
                 /\ map[IdOf(i)].accountId = Trim(CellAt(rows[i], accountIdIdx))

\* the tables the sheet has served
KnownTables == {ParseCSV(t) : t \in Sheets \cup {SheetFull}}

\* the map is the whole map of one of the tables the sheet has served
IsComplete(map) == \E rows \in KnownTables : CompleteFor(map, rows)

\* C24 Complete-map invariant: in every reachable state, under any
\* interleaving of the callers, the cache is empty or holds a fully built map
\* with the time of a call; a map returned to a caller is the static mapping
\* or a fully built map.
C24_CompleteMap ==
  /\ dir.cache.full => (IsComplete(dir.cache.map) /\ dir.cache.at <= dir.clock)
  /\ ~dir.cache.full => dir.cache = NoCache
  /\ \A c \in DirCallers :
       dir.call[c].pc = "returned" =>
         \/ ~UrlConfigured /\ dir.call[c].ret = Directory
         \/ UrlConfigured /\ IsComplete(dir.call[c].ret)

\* one caller was returned the two-entry map it built and cached at 1 while
\* the other caller is reading the body of its own fetch
C24_Witness ==
  /\ dir.call[1].pc = "reading"
  /\ dir.call[2].pc = "returned"
  /\ dir.cache = CacheOf(1, dir.call[2].ret)
  /\ DOMAIN dir.call[2].ret = {<<"7">>, <<"9">>}
  /\ dir.call[2].ret[<<"7">>].accountName = <<"A", "c", "m", "e">>

\* the header row of the table has no identifier column
NoIdColumn(rows) ==
  /\ rows # <<>>
  /\ \A i \in 1..Len(rows[1]) :
       \A k \in 1..Len(SiteIdAliases) :
         ToLower(Trim(rows[1][i])) # SiteIdAliases[k]

\* C25 Failed rebuild: when the fetch is answered with a response that is not
\* ok the call throws the fetch error; when the header row of the fetched text
\* has no identifier column under any alias the call throws the schema error
\* that lists the trimmed headers; a call that throws leaves the cached map and
\* timestamp as they were.
C25_FailedRebuild ==
  [][\A c \in DirCallers :
       /\ (dir.call[c].pc = "reading" /\ dir'.call[c].pc # "reading") =>
            LET rows == ParseCSV(dir.call[c].text) IN
              NoIdColumn(rows) =>
                /\ dir'.call[c].pc = "threw"
                /\ dir'.call[c].err.kind = "schema"
                /\ dir'.call[c].err.headers =
                     [i \in 1..Len(rows[1]) |-> Trim(rows[1][i])]
       /\ (dir.call[c].pc = "fetching" /\ dir'.call[c].pc = "threw") =>
            /\ dir'.call[c].err.kind = "fetch"
            /\ dir'.call[c].err.status \notin 200..299
       /\ (dir.call[c].pc \in {"fetching", "reading"} /\ dir'.call[c].pc = "threw") =>
            dir'.cache = dir.cache]_vars

\* a rebuild after expiry met a table without identifier column: the caller
\* has the schema error and the entry built at 0 is still cached
C25_Witness ==
  /\ dir.cache = PriorCache
  /\ dir.clock >= 30000
  /\ dir.call[1].pc = "threw"
  /\ dir.call[1].err = MissingColumn(<< <<"s", "i", "t", "e">>, <<"n", "a", "m", "e">> >>)

\* C26 Static fallback: when no source URL is configured, every call of
\* getDirectoryMap returns the static mapping, no call fetches, and the cache
\* is left as it is, whatever it holds.
C26_StaticFallback ==
  /\ [](~UrlConfigured =>
          \A c \in DirCallers :
            /\ dir.call[c].pc \in {"idle", "importing", "returned"}
            /\ dir.call[c].pc = "returned" => dir.call[c].ret = Directory)
  /\ [][~UrlConfigured => dir'.cache = dir.cache]_vars

\* without URL a call has returned the static mapping although the cache
\* holds another map, older than any TTL
C26_Witness ==
  /\ ~UrlConfigured
  /\ dir.cache.full
  /\ dir.cache.map # Directory
  /\ dir.clock >= 300000
  /\ dir.call[1].pc = "returned"
  /\ dir.call[1].ret = Directory

\* C27 TTL floor: for every value of CACHE_TTL_SECONDS (unset, empty, zero,
\* negative, below 30, not a number) the TTL is a number of seconds of at
\* least 30, and 300 when the value is unset; a cached map younger than 30
\* seconds is returned without a fetch.
C27_TtlFloor ==
  /\ [](/\ ~dir.ttl.nan
        /\ dir.ttl.n >= 30
        /\ ~dir.ttlEnv.set => dir.ttl = Num(300))
  /\ [][\A c \in DirCallers :
          (UrlConfigured /\ Calls(c) /\ Younger(30)) =>
            dir'.call[c].pc = "returned"]_vars

------------------------------------------------------------------------------
(* The CSV parser *)

\* C28 CSV round trip: for every table of field values built from ordinary
\* characters, commas, double quotes and line breaks, each written as a quoted
\* field with its quotes doubled, parseCSV of the text yields the table: the
\* same rows, the same cells in each row, each cell equal to the value written.
C28_RoundTrip == csv.pc = "parsed" => csv.rows = csv.table

\* the one shape that does not come back: the text stops right after a last
\* row that is a single empty field
LastRowLost ==
  /\ ~csv.ended
  /\ csv.table[Len(csv.table)] = << <<>> >>

\* every other table comes back whole, and the lost row is the only loss
C28_RoundTripButLastEmptyRow ==
  csv.pc = "parsed" =>
    IF LastRowLost
    THEN csv.rows = SubSeq(csv.table, 1, Len(csv.table) - 1)
    ELSE csv.rows = csv.table

------------------------------------------------------------------------------
(* The validate handler *)

\* C29 Site-identifier validation: for every raw input, a GET to the validate
\* handler reports valid = true if and only if the trimmed input is non-empty
\* and is an entry of the directory (or identifier set); accountName and
\* accountId are non-null only when valid is true, and are then that entry's
\* metadata.
C29_SiteIdValidation ==
  (validate.pc = "done" /\ validate.method = "GET") =>
    LET siteId == Trim(IF validate.raw.set THEN validate.raw.text ELSE <<>>)
        a == validate.answer
    IN /\ a.status = 200
       /\ a.json
       /\ a.valid <=> (siteId # <<>> /\ siteId \in SiteIds)
       /\ (a.accountName # <<>> \/ a.accountId # <<>>) => a.valid
       /\ (a.valid /\ a.withMeta /\ siteId \in SiteIds) =>
            /\ a.accountName = Directory[siteId].accountName
            /\ a.accountId = Directory[siteId].accountId

------------------------------------------------------------------------------
(* adminREST: the value returned *)

\* C31 Success result: for every 2xx final response adminREST returns, and
\* what it returns is the parsed body when the body is non-empty valid JSON
\* (an object, a number, the literal null) and null when the body is empty,
\* blank or no JSON; a 2xx body that is no JSON never makes the call throw.
C31_SuccessResult ==
  (rest.pc \in {"returned", "threw"}
     /\ rest.hist[Len(rest.hist)] >= 200 /\ rest.hist[Len(rest.hist)] <= 299) =>
    /\ rest.pc = "returned"
    /\ rest.err = NoError
    /\ rest.json =
         (IF rest.bodyLen = 0 THEN JsNull
          ELSE IF rest.body = <<"{", "}">> THEN JsObject
          ELSE IF rest.body = <<"7">> THEN JsNumber(<<"7">>)
          ELSE JsNull)

\* a 201 whose body is '<' and blanks, 400 characters in all, after a retried
\* 503: the call returned null
C31_Witness ==
  /\ rest.pc = "returned"
  /\ rest.hist = <<503, 201>>
  /\ rest.body = <<"<">>
  /\ rest.bodyLen = 400
  /\ rest.json = JsNull

------------------------------------------------------------------------------
(* The register response: action and confirmed identifier *)

\* the initial lookup of a request is its first remote call
InitialLookup(p) == log[p][1]

\* C32 Result action: an ok:true register response has action 'updated'
\* exactly when the initial lookup returned an identifier and action 'created'
\* exactly when it returned none, and the customerId of the response is an
\* identifier whose CONFIRM read (GET /customers/{id}.json) came back with an
\* email equal to the request email.
C32_ResultAction ==
  \A p \in Active :
    (resp[p].sent /\ resp[p].ok) =>
      /\ InitialLookup(p).op = "search"
      /\ resp[p].action = "updated" <=> InitialLookup(p).id # Null
      /\ resp[p].action = "created" <=> InitialLookup(p).id = Null
      /\ \E i \in 1..Len(log[p]) :
           /\ log[p][i].op = "get"
           /\ log[p][i].key = "ok"
           /\ log[p][i].id = resp[p].customerId
           /\ ToLower(log[p][i].val) = RequestEmail(p)

------------------------------------------------------------------------------
(* The register handler: termination *)

\* the longest run of awaits in the handler: lookup, name, phone, confirm,
\* tags, and a list and a write for each of the four attributes
MaxRemoteCalls == 5 + 2 * 4

Terminal(p) == pc[p] \in {"idle", "done"}

\* the awaited call ends the request with an ok:false response
FailsNow(p) == HandlerStep(p) /\ resp'[p].sent /\ ~resp'[p].ok

\* how many awaits whose failure is swallowed (lookup, try {} catch {}) may
\* lie between a position and one whose failure ends the request
FailDistance(pos) ==
  CASE pos = "lookup" -> 4
    [] pos = "put_phone" -> 3
    [] pos = "uo_get" -> 2
    [] pos = "put_tags" -> 1
    [] OTHER -> 0

TowardsFailure(p) ==
  HandlerStep(p) /\ FailDistance(pc'[p]) < FailDistance(pc[p])

\* C33 Request termination: when every remote call returns, every register
\* request that was received reaches a terminal response, ok:true or ok:false;
\* it does so within MaxRemoteCalls remote calls, every step of the handler
\* being one more remote call (the handler has no loop of its own); and from
\* every step a failure response is reachable: the awaited call can end the
\* request with ok:false, or leads to a step nearer to one where it can.
C33_RequestTermination ==
  /\ \A p \in Procs : ~Terminal(p) ~> (pc[p] = "done" /\ resp[p].sent)
  /\ [](\A p \in Procs :
          /\ Len(log[p]) <= MaxRemoteCalls
          /\ pc[p] = "done" <=> resp[p].sent
          /\ ~Terminal(p) =>
               /\ ENABLED FailsNow(p) \/ ENABLED TowardsFailure(p)
               /\ FailDistance(pc[p]) = 0 => ENABLED FailsNow(p))
  /\ [][\A p \in Procs :
          (~Terminal(p) /\ <<pc[p], loc[p]>> # <<pc'[p], loc'[p]>>) =>
            Len(log'[p]) = Len(log[p]) + 1]_vars

\* a request answered ok:true after the longest run of remote calls
C33_Witness ==
  /\ pc[1] = "done"
  /\ resp[1].ok
  /\ Len(log[1]) = MaxRemoteCalls

------------------------------------------------------------------------------
(* Phone values sent to the store *)

\* '+' followed by 8 to 15 digits
CanonicalPhone(t) ==
  /\ Len(t) >= 1 + 8
  /\ Len(t) <= 1 + 15
  /\ t[1] = "+"
  /\ \A i \in 2..Len(t) : t[i] \in Digits

\* what is left of a phone value without its outer blanks once everything
\* but digits and '+' is removed
Reduced(raw) == LET Kept(c) == c \in Digits \cup {"+"} IN SelectSeq(Trim(raw), Kept)

ReducesToTenDigits(raw) ==
  Len(Reduced(raw)) = 10 /\ \A i \in 1..10 : Reduced(raw)[i] \in Digits

\* the canonical form of a phone value, when it has one
CanonicalOf(raw) ==
  IF ReducesToTenDigits(raw) THEN <<"+", "1">> \o Reduced(raw) ELSE Reduced(raw)

PhoneCalls == {"create", "put_phone"}

\* C34 Phone canonical form: every phone value a register request of the
\* directory revision transmits (in the create body, in the phone PUT) is '+'
\* followed by 8 to 15 digits and is the reduced request value, prefixed with
\* '+1' when that is exactly 10 digits; when the request value has no such
\* form, normalizePhone returns null, the create body carries no phone and no
\* phone PUT is issued.
C34_PhoneCanonical ==
  \A p \in Active :
    req[p].variant = "rest" =>
      /\ \A i \in 1..Len(log[p]) :
           /\ log[p][i].phone # <<>> =>
                /\ log[p][i].op \in PhoneCalls
                /\ CanonicalPhone(log[p][i].phone)
                /\ log[p][i].phone = CanonicalOf(req[p].phone)
           /\ log[p][i].op = "put_phone" => log[p][i].phone # <<>>
      /\ ~CanonicalPhone(CanonicalOf(req[p].phone)) =>
           /\ NormalizePhone(req[p].phone) = <<>>
           /\ \A i \in 1..Len(log[p]) :
                log[p][i].phone = <<>> /\ log[p][i].op # "put_phone"

\* a request whose phone was ten digits among other characters has created a
\* customer with the '+1' form
C34_Witness ==
  /\ req[1].phone = <<" ", "(">> \o TenDigitPhone \o <<")", "x">>
  /\ Len(log[1]) >= 2
  /\ log[1][2].op = "create"
  /\ log[1][2].phone = <<"+", "1", "5", "5", "5", "1", "2", "3", "4", "5", "6", "7">>

------------------------------------------------------------------------------
(* adminREST: the request sent *)

BodyGiven(init) == init.body.kind \notin {"undefined", "null"}

\* C35 Body and content type in adminREST: a body is transmitted only when
\* the method is neither GET nor HEAD and a non-null body was given; a string
\* body goes out as it is and any other value JSON-serialized; and, the caller
\* naming no content type of its own, the Content-Type header is present
\* exactly when a body is transmitted, the empty pre-encoded string included.
C35_BodyAndContentType ==
  rest.pc # "idle" =>
    LET init == rest.init
        sent == rest.request
    IN /\ sent.body # NoBody =>
            /\ sent.method \notin {"GET", "HEAD"}
            /\ BodyGiven(init)
            /\ sent.body.kind = "string"
            /\ sent.body.text = IF init.body.kind = "string" THEN init.body.text
                                ELSE JsonStringify(init.body)
       /\ init.headers = {} => (ContentType \in sent.headers <=> sent.body # NoBody)

------------------------------------------------------------------------------
(* adminREST: deliveries of one call *)

\* every fetch that was answered reached the remote store
Deliveries == rest.fetches

\* C37 Non-idempotent calls are delivered at most once: the POST by which the
\* register handler creates a customer (or an attribute) reaches the remote
\* store at most once, also when the store answers the first delivery with 429
\* or a 5xx status.
C37_PostAtMostOnce ==
  (rest.init = HandlerPost /\ ~rest.tries.given) => Deliveries <= 1

------------------------------------------------------------------------------
(* The site directory cache: freshness *)

\* C36 Cache freshness is monotonic: whenever one cache entry replaces
\* another, the build timestamp of the new entry (the time at which the call
\* that fetched its map started) is not earlier than that of the entry it
\* replaces, whatever the interleaving of the callers.
C36_FreshnessMonotonic ==
  [][(dir.cache.full /\ dir'.cache.full) => dir'.cache.at >= dir.cache.at]_vars

------------------------------------------------------------------------------
(* The customer-save handler: the record it writes to *)

SaveMutations == {"customer_update", "mf_set"}

\* C38: every mutation the customer-save handler issues (customerUpdate,
\* metafieldsSet) names a stored record whose email equals the request email,
\* letter case aside; the first search result is never written to when its
\* email differs, and nothing is written when no record has that email.
C38_SaveOnlyMatchingRecord ==
  \A p \in Active :
    req[p].variant = "save" =>
      \A i \in 1..Len(log[p]) :
        log[p][i].op \in SaveMutations =>
          \E k \in 1..Len(customers) :
            /\ customers[k].id = log[p][i].id
            /\ ToLower(customers[k].email) = ToLower(req[p].email)

==============================================================================
